---- MODULE Spec2Model ----
(***************************************************************************)
(* Model of the transactional core of clean_fastapi (src/project):         *)
(*   - SqlAlchemyUnitOfWork (__aenter__/__aexit__) over SQLAlchemy          *)
(*     sessions created by SessionFactory (expire_on_commit=False,         *)
(*     autoflush=False);                                                   *)
(*   - the service methods create_note, create_user, update_user, login    *)
(*     and get_notes, step by step at their await points;                  *)
(*   - keyset pagination of notes (repository get_notes, the cursor built  *)
(*     by NoteService.get_notes and parsed by parse_cursor).               *)
(*                                                                         *)
(* Every request owns one service object and one Unit of Work instance     *)
(* (providers.Factory in the containers), so the Unit of Work state is     *)
(* kept per request process. Storage is the set of committed rows; a       *)
(* session holds the rows it has added or changed and not yet committed.   *)
(* The storage commit is atomic: a commit that raises, or that is          *)
(* cancelled, persists nothing.                                            *)
(***************************************************************************)
EXTENDS Integers, Sequences, FiniteSets, TLC

\* ---------------------------------------------------------------- bounds
MaxId == 3           \* identifiers (uuid4 values) available, ordered as strings are
MaxClock == 2        \* clock readings 1..MaxClock
MaxFaults == 1       \* storage faults / cancellations injected per run
MaxTags == 1         \* tag names per command
MaxLimit == 2        \* page size limit 1..MaxLimit
MaxNoteTags == 2     \* tag names per command of the note specifications
MaxTokenClock == 6   \* clock readings of the token specification, in half seconds

\* ------------------------------------------------------ program constants
MAX_TAGS_PER_NOTE == 10

Procs == {"p1", "p2"}   \* two concurrent requests
Ids == 1..MaxId
Times == 1..MaxClock
Users == {"u1", "u2"}
Emails == {"e1", "e2"}
TagNames == {"a"}
TagLists == UNION {[1..n -> TagNames] : n \in 0..MaxTags}
NoteTagNames == {"a", "b"}
NoteTagLists == UNION {[1..n -> NoteTagNames] : n \in 0..MaxNoteTags}
ShortTagLists == {l \in NoteTagLists : Len(l) <= 1}
None == "None"
NoExc == "none"

\* note_settings
TITLE_MAX_LENGTH == 64
CONTENT_MIN_LENGTH == 1
MEMO_DATE_LENGTH == 8

\* len() of the string a value stands for: "" is the empty string, "t65" a
\* title of 65 characters, "d1" and "d2" dates of 8 characters, "d7" a date
\* of 7, every other value a short non-empty string
Chars(x) ==
    CASE x = "" -> 0
      [] x = "t65" -> 65
      [] x \in {"d1", "d2"} -> 8
      [] x = "d7" -> 7
      [] OTHER -> 2

\* a tag_names list of MAX_TAGS_PER_NOTE + 1 names
OversizedTags == [i \in 1..(MAX_TAGS_PER_NOTE + 1) |-> "a"]

VARIABLES
    db,          \* committed storage: [note, tag, note_tag, user] sets of rows
    clock,       \* datetime.now(timezone.utc)
    usedIds,     \* uuid4 values already generated
    faultsLeft,  \* storage faults / cancellations the environment may still inject
    pc,          \* pc[p]: position of request p inside its service method
    req,         \* req[p]: the service call and its arguments
    sessions,    \* sessions[p]: the sessions created by p's Unit of Work, in order
    uowSession,  \* uowSession[p]: uow.session (0 = None), index into sessions[p]
    exc,         \* exc[p]: exception in flight in p's scope body
    found,       \* found[p]: result of find_by_email ({} = None, else the one row)
    result,      \* result[p]: what the service method returned ("ok") or raised
    hist,        \* hist[p]: the session calls p's Unit of Work and repositories made
    pager        \* the client following the next_cursor chain of get_notes

vars == <<db, clock, usedIds, faultsLeft, pc, req, sessions, uowSession, exc,
          found, result, hist, pager>>

procVars == <<pc, req, sessions, uowSession, exc, found, result, hist>>

\* ------------------------------------------------------------- storage
EmptyDb == [note |-> {}, tag |-> {}, note_tag |-> {}, user |-> {}]

\* pending changes of a session (its unit of work): rows added (note, tag,
\* note_tag, user), user rows changed (upd), note rows changed
\* (upd_note), association rows the relationship history marks as removed
\* (del_note_tag), notes marked deleted (del_note), and the tables for which
\* two pending objects carry the same primary key (dup; "identity": a pending
\* object carries the key of an object loaded in this session)
EmptyPend == [note |-> {}, tag |-> {}, note_tag |-> {}, user |-> {}, upd |-> {},
              upd_note |-> {}, del_note_tag |-> {}, del_note |-> {}, dup |-> {}]

NoteRow(id, user_id, title, content, memo_date, created_at, updated_at) ==
    [id |-> id, user_id |-> user_id, title |-> title, content |-> content,
     memo_date |-> memo_date, created_at |-> created_at, updated_at |-> updated_at]
TagRow(id, name) == [id |-> id, name |-> name]
NoteTagRow(note_id, tag_id) == [note_id |-> note_id, tag_id |-> tag_id]
UserRow(id, email, name, password, memo, role, created_at, updated_at) ==
    [id |-> id, email |-> email, name |-> name, password |-> password,
     memo |-> memo, role |-> role, created_at |-> created_at,
     updated_at |-> updated_at]

\* the UPDATE of a note row: only the attributes whose value changed are set
\* ("None" / 0 = attribute not changed)
NoteChange(id, title, content, memo_date, updated_at) ==
    [id |-> id, title |-> title, content |-> content, memo_date |-> memo_date,
     updated_at |-> updated_at]

\* an UPDATE that rewrites created_at together with updated_at
ApplyNoteChangeTouchingCreated(n, c) ==
    [n EXCEPT !.title = IF c.title # "None" THEN c.title ELSE @,
              !.content = IF c.content # "None" THEN c.content ELSE @,
              !.memo_date = IF c.memo_date # "None" THEN c.memo_date ELSE @,
              !.updated_at = IF c.updated_at # 0 THEN c.updated_at ELSE @,
              !.created_at = IF c.updated_at # 0 THEN c.updated_at ELSE @]

ApplyNoteChange(n, c) ==
    [n EXCEPT !.title = IF c.title # "None" THEN c.title ELSE @,
              !.content = IF c.content # "None" THEN c.content ELSE @,
              !.memo_date = IF c.memo_date # "None" THEN c.memo_date ELSE @,
              !.updated_at = IF c.updated_at # 0 THEN c.updated_at ELSE @]

\* the UPDATE of a user row: only the attributes whose value changed are set
\* ("None" / 0 = attribute not changed)
UserChange(id, name, password, memo, role, updated_at) ==
    [id |-> id, name |-> name, password |-> password, memo |-> memo,
     role |-> role, updated_at |-> updated_at]

\* an UPDATE that writes every column of the changes dict, supplied or not
ApplyUserChangeAllColumns(u, c) ==
    [u EXCEPT !.name = c.name, !.password = c.password, !.memo = c.memo,
              !.role = c.role,
              !.updated_at = IF c.updated_at # 0 THEN c.updated_at ELSE @]

ApplyUserChange(u, c) ==
    [u EXCEPT !.name = IF c.name # "None" THEN c.name ELSE @,
              !.password = IF c.password # "None" THEN c.password ELSE @,
              !.memo = IF c.memo # "None" THEN c.memo ELSE @,
              !.role = IF c.role # "None" THEN c.role ELSE @,
              !.updated_at = IF c.updated_at # 0 THEN c.updated_at ELSE @]

\* a flush that deletes a note row and leaves its association rows behind
ApplyPendingNoCascade(d, pend) ==
    [note |-> {n \in d.note : n.id \notin pend.del_note} \cup pend.note,
     tag |-> d.tag \cup pend.tag,
     note_tag |-> (d.note_tag \ pend.del_note_tag) \cup pend.note_tag,
     user |-> d.user \cup pend.user]

\* a flush whose relationship cascades to Tag rows that lose their last note
ApplyPendingDeleteOrphans(d, pend) ==
    LET kept == {a \in d.note_tag : a \notin pend.del_note_tag
                                    /\ a.note_id \notin pend.del_note}
                \cup pend.note_tag
    IN [note |-> {IF \E c \in pend.upd_note : c.id = n.id
                    THEN ApplyNoteChange(n, CHOOSE c \in pend.upd_note : c.id = n.id)
                    ELSE n : n \in {m \in d.note : m.id \notin pend.del_note}}
                 \cup pend.note,
        tag |-> {t \in d.tag \cup pend.tag :
                   (\E a \in d.note_tag : a.tag_id = t.id)
                     => \E a \in kept : a.tag_id = t.id},
        note_tag |-> kept,
        user |-> {IF \E c \in pend.upd : c.id = u.id
                    THEN ApplyUserChange(u, CHOOSE c \in pend.upd : c.id = u.id)
                    ELSE u : u \in d.user} \cup pend.user]

\* the flush that commit() performs: INSERT the added rows, UPDATE the changed
\* rows, DELETE and INSERT the association rows the relationship history
\* holds, DELETE the notes marked deleted together with their association rows
ApplyPending(d, pend) ==
    [note |-> {IF \E c \in pend.upd_note : c.id = n.id
                 THEN ApplyNoteChange(n, CHOOSE c \in pend.upd_note : c.id = n.id)
                 ELSE n : n \in {m \in d.note : m.id \notin pend.del_note}}
              \cup pend.note,
     tag |-> d.tag \cup pend.tag,
     note_tag |-> {a \in d.note_tag : a \notin pend.del_note_tag
                                      /\ a.note_id \notin pend.del_note}
                  \cup pend.note_tag,
     user |-> {IF \E c \in pend.upd : c.id = u.id
                 THEN ApplyUserChange(u, CHOOSE c \in pend.upd : c.id = u.id)
                 ELSE u : u \in d.user} \cup pend.user]

\* UserModel.email is unique=True: the flush of a second row with a stored
\* email raises IntegrityError
ViolatesUnique(d, pend) ==
    \E u \in pend.user : \E v \in d.user : v.email = u.email /\ v.id # u.id

\* the primary keys of note, tag and note_tag, and the foreign keys of
\* note_tag: an INSERT of a stored key, two INSERTs of one key in one flush,
\* or an association to a note row that is gone raise IntegrityError
ViolatesKeys(d, pend) ==
    \/ pend.dup \cap {"note", "tag"} # {}
    \/ \E n \in pend.note : \E m \in d.note : m.id = n.id
    \/ \E t \in pend.tag : \E u \in d.tag : u.id = t.id
    \/ pend.note_tag \cap d.note_tag # {}
    \/ \E a \in pend.note_tag :
          ~\E n \in {m \in d.note : m.id \notin pend.del_note} \cup pend.note :
               n.id = a.note_id

\* the UPDATE of a note row that is no longer stored matches no row: the
\* flush raises StaleDataError
StaleUpdate(d, pend) ==
    \E c \in pend.upd_note : ~\E n \in d.note : n.id = c.id

\* title is String(TITLE_MAX_LENGTH) and memo_date String(MEMO_DATE_LENGTH):
\* the INSERT of a longer value raises DataError (a shorter or empty value
\* is stored; content is TEXT)
TooLong(pend) ==
    \E n \in pend.note : \/ Chars(n.title) > TITLE_MAX_LENGTH
                         \/ Chars(n.memo_date) > MEMO_DATE_LENGTH

\* outcome of the flush inside commit()
FlushOutcome(d, pend) ==
    IF TooLong(pend) THEN "DataError"
    ELSE IF ViolatesUnique(d, pend) \/ ViolatesKeys(d, pend) THEN "IntegrityError"
    ELSE IF StaleUpdate(d, pend) THEN "StaleDataError"
    ELSE "ok"


\* ------------------------------------------------------------- sessions
\* async_sessionmaker() followed by session.begin()
NewSession == [tx |-> "active", pend |-> EmptyPend, closes |-> 0]

\* any statement or add() on a session that has no transaction begins one
\* (autobegin); a closed session is usable again
Autobegin(s) == [s EXCEPT !.tx = "active"]

Ev(e, k, r, x) == [e |-> e, s |-> k, r |-> r, x |-> x]

OpenOrClosed(s) == IF s.closes > 0 THEN "closed" ELSE "open"

\* outcomes of one storage round trip (await): it returns, the storage layer
\* raises, or the request is cancelled while suspended in it
AwaitOutcomes == {"ok"} \cup (IF faultsLeft > 0 THEN {"StorageError", "Cancelled"} ELSE {})

FaultsAfter(r) ==
    IF r \in {"ok", "IntegrityError", "StaleDataError", "FlushError", "DataError"}
      THEN faultsLeft ELSE faultsLeft - 1

\* ------------------------------------------------- SqlAlchemyUnitOfWork
\* __aenter__: a new session replaces uow.session, a transaction is begun on
\* it and both repositories are rebound to it. Nothing checks the state the
\* instance is in.
EnterSession(ss) == Append(ss, NewSession)

\* __aexit__: which transaction call is made
ExitCall(e) == IF e # NoExc THEN "rollback" ELSE "commit"

\* __aexit__ returns None: an exception raised by commit/rollback leaves the
\* finally block in place of the body's exception, otherwise the body's
\* exception continues
Propagated(e, raised) == IF raised # NoExc THEN raised ELSE e

TxOutcomes(call, s) ==
    IF call = "commit"
      THEN {FlushOutcome(db, s.pend)}
           \cup (IF "identity" \in s.pend.dup THEN {"FlushError"} ELSE {})
           \cup (IF faultsLeft > 0 THEN {"CommitError", "CancelledInExit"} ELSE {})
      ELSE {"ok"} \cup (IF faultsLeft > 0 THEN {"RollbackError", "CancelledInExit"} ELSE {})

\* the session after commit()/rollback() ended with outcome r
AfterTx(s, call, r) ==
    IF r # "ok" THEN s
    ELSE [s EXCEPT !.tx = IF s.tx = "active"
                            THEN (IF call = "commit" THEN "committed" ELSE "rolledback")
                            ELSE s.tx,
                   !.pend = EmptyPend]

\* session.close(): ends a transaction in progress (its changes are
\* discarded) and releases the connection
CloseSession(s) ==
    [s EXCEPT !.tx = IF s.tx = "active" THEN "rolledback" ELSE s.tx,
              !.pend = EmptyPend,
              !.closes = s.closes + 1]

\* __aexit__ with close() after the try block instead of in finally
ExitSessionNoFinally(s, call, r) ==
    IF r = "ok" THEN CloseSession(AfterTx(s, call, r)) ELSE s

\* the session after __aexit__: the transaction call in the try block, then
\* close() in the finally block, whatever the call raised
ExitSession(s, call, r) == CloseSession(AfterTx(s, call, r))


\* --------------------------------------------------- Argon2PasswordHasher
\* the passwords clients supply; Oversize is longer than passlib accepts
Plaintexts == {"pw1", "pw2"}
Oversize == "big"

\* the salts CryptContext.hash draws
Salts == {"s1", "s2"}

\* an argon2 hash string: scheme, salt and the digest of raw under the salt
Argon2(raw, salt) == "$argon2id$" \o salt \o "$" \o raw

\* the strings CryptContext identifies and parses as argon2 hashes
WellFormedHashes == {Argon2(raw, salt) : raw \in Plaintexts, salt \in Salts}

\* a hasher that stores what it is given
encrypt_plain(raw, salt) == [value |-> raw, exc |-> NoExc]

\* Argon2PasswordHasher.encrypt: the hash under a fresh salt; every
\* exception of CryptContext.hash becomes a ValidationException
encrypt(raw, salt) ==
    IF raw = Oversize THEN [value |-> None, exc |-> "ValidationException"]
    ELSE [value |-> Argon2(raw, salt), exc |-> NoExc]

\* a verifier that falls back to comparing the strings when the stored
\* value is not a hash
verify_or_compare(raw, hashed) ==
    IF hashed \in WellFormedHashes
      THEN [value |-> \E salt \in Salts : hashed = Argon2(raw, salt), exc |-> NoExc]
      ELSE [value |-> hashed = raw, exc |-> NoExc]

\* Argon2PasswordHasher.verify: CryptContext.verify returns False for a hash
\* of None, raises for a secret that is too long and for a string it cannot
\* identify or parse, and otherwise recomputes the digest under the salt of
\* the hash; every exception becomes a ValidationException
verify(raw, hashed) ==
    IF hashed = None THEN [value |-> FALSE, exc |-> NoExc]
    ELSE IF raw = Oversize \/ hashed \notin WellFormedHashes
      THEN [value |-> FALSE, exc |-> "ValidationException"]
    ELSE [value |-> \E salt \in Salts : hashed = Argon2(raw, salt), exc |-> NoExc]

\* ------------------------------------------------------------ JwtProvider
\* Time is counted in half seconds, so that a datetime has a fractional part
\* for int(expire.timestamp()) to drop; a token is its payload (sub: "None"
\* when data has no "sub"; role; exp in whole seconds) and whether its
\* signature verifies under secret_key.
ACCESS_TOKEN_EXPIRE_MINUTES == 30

Minutes(m) == m * 120

\* the expires_delta arguments: None, or a timedelta of -1 s, 0 s, 0.5 s, 1 s
Ttls == {[given |-> FALSE, d |-> 0]} \cup {[given |-> TRUE, d |-> x] : x \in {-2, 0, 1, 2}}

\* expires_delta or timedelta(minutes=...): None and timedelta(0) are falsy
DeltaOrDefault(ttl) ==
    IF ttl.given /\ ttl.d # 0 THEN ttl.d ELSE Minutes(ACCESS_TOKEN_EXPIRE_MINUTES)

\* int(expire.timestamp()) of a time after the epoch
WholeSeconds(t) == t \div 2

\* JwtProvider.create_access_token(data, role, expires_delta) at time now
create_access_token(sub, role, ttl, now) ==
    [sub |-> sub, role |-> role, exp |-> WholeSeconds(now + DeltaOrDefault(ttl)),
     sig |-> "valid"]

\* --------------------------------------------------------- service calls
\* has_tags: tag_names is not None; tid: the value the uuid4 ids of the
\* request's Tag objects are derived from (0 = it builds none)
NoReq == [op |-> "none", id |-> 0, user_id |-> None, email |-> None,
          tag_names |-> <<>>, pw_ok |-> FALSE, new_name |-> None, now |-> 0,
          title |-> None, content |-> None, memo_date |-> None,
          has_tags |-> FALSE, tid |-> 0,
          new_password |-> None, new_memo |-> None, new_role |-> None,
          role |-> None, ttl |-> [given |-> FALSE, d |-> 0],
          password |-> None, salt |-> None,
          token |-> [sub |-> None, role |-> None, exp |-> 0, sig |-> "none"]]

\* a fresh request: its own service object and Unit of Work instance
Begin(p, q) ==
    /\ pc[p] = "idle"
    /\ pc' = [pc EXCEPT ![p] = "enter"]
    /\ req' = [req EXCEPT ![p] = q]
    /\ UNCHANGED <<db, clock, faultsLeft, sessions, uowSession, exc, found, result,
                   hist, pager>>

\* NoteService.create_note up to its scope: now is read before the scope is
\* entered; the note id is a uuid4
CreateNoteOf(p, ids, values, tag_names) ==
    /\ pc[p] = "idle"
    /\ \E id \in ids, u \in Users, v \in values :
        /\ Begin(p, [NoReq EXCEPT !.op = "create_note", !.id = id, !.user_id = u,
                                  !.tag_names = tag_names, !.now = clock,
                                  !.title = v.title, !.content = v.content,
                                  !.memo_date = v.memo_date, !.has_tags = TRUE,
                                  !.tid = id])
        /\ usedIds' = usedIds \cup {id}

\* create_note with a well-formed title, content and memo_date
CreateNoteFrom(p, ids, tag_names) ==
    CreateNoteOf(p, ids, {[title |-> "t1", content |-> "c1", memo_date |-> "d1"]},
                 tag_names)

CreateNoteWith(p, tag_names) == CreateNoteFrom(p, Ids \ usedIds, tag_names)

CreateNote(p) == \E tn \in TagLists : CreateNoteWith(p, tn)

\* one unused uuid4 value, for the specifications in which the order of the
\* ids plays no part
LeastUnused == {i \in Ids \ usedIds : \A j \in Ids \ usedIds : i <= j}

\* the fields an UpdateNoteCommand may carry (None = not supplied)
NoteEdits ==
    {[title |-> None, content |-> None, memo_date |-> None],
     [title |-> "t2", content |-> None, memo_date |-> None],
     [title |-> "t2", content |-> "c2", memo_date |-> "d2"]}

\* the note ids a request may name: every id in use and one that is not
TargetIds == usedIds \cup LeastUnused

\* tag_names of an UpdateNoteCommand: None, or one of the lists
TagArgs(lists) ==
    {[has_tags |-> FALSE, tag_names |-> <<>>]}
        \cup {[has_tags |-> TRUE, tag_names |-> l] : l \in lists}

\* NoteService.update_note up to its scope: now is read before the scope is
\* entered; tag_names is None or a list, and the Tag objects built for a list
\* get fresh uuid4 ids
UpdateNoteWith(p, edits, tagArgs) ==
    /\ pc[p] = "idle"
    /\ \E id \in TargetIds, u \in Users, ed \in edits, ta \in tagArgs :
      \E tid \in IF ta.has_tags /\ ta.tag_names # <<>> THEN LeastUnused ELSE {0} :
        /\ Begin(p, [NoReq EXCEPT !.op = "update_note", !.id = id, !.user_id = u,
                                  !.title = ed.title, !.content = ed.content,
                                  !.memo_date = ed.memo_date,
                                  !.has_tags = ta.has_tags,
                                  !.tag_names = ta.tag_names,
                                  !.tid = tid, !.now = clock])
        /\ usedIds' = usedIds \cup ({tid} \ {0})

\* NoteService.delete_note(cmd) and NoteService.get_note(query)
DeleteNote(p) ==
    /\ pc[p] = "idle"
    /\ \E id \in TargetIds, u \in Users :
        /\ Begin(p, [NoReq EXCEPT !.op = "delete_note", !.id = id, !.user_id = u])
        /\ UNCHANGED usedIds

GetNote(p) ==
    /\ pc[p] = "idle"
    /\ \E id \in TargetIds, u \in Users :
        /\ Begin(p, [NoReq EXCEPT !.op = "get_note", !.id = id, !.user_id = u])
        /\ UNCHANGED usedIds

\* a scope whose body calls note_repository.save(user_id, note) twice with
\* the same Note object: a new note, or one that is stored
SaveTwice(p) ==
    /\ pc[p] = "idle"
    /\ \E tid \in LeastUnused, u \in Users, tn \in ShortTagLists :
      \E id \in {tid} \cup {n.id : n \in {m \in db.note : m.user_id = u}} :
        /\ Begin(p, [NoReq EXCEPT !.op = "save_twice", !.id = id, !.user_id = u,
                                  !.tag_names = tn, !.now = clock,
                                  !.title = "t1", !.content = "c1",
                                  !.memo_date = "d1", !.has_tags = TRUE,
                                  !.tid = tid])
        /\ usedIds' = usedIds \cup {tid}

\* UserService.create_user(name, email, password)
CreateUser(p) ==
    \E id \in Ids \ usedIds, e \in Emails :
        /\ Begin(p, [NoReq EXCEPT !.op = "create_user", !.id = id, !.email = e,
                                  !.new_name = "n1"])
        /\ usedIds' = usedIds \cup {id}

\* the optional arguments of update_user (None = not supplied); a supplied
\* value is one no other request supplies, and the hash of a new password
\* differs from every stored hash
UserEdits(p) ==
    {[new_name |-> n, new_password |-> w, new_memo |-> m, new_role |-> r] :
        n \in {None, p}, w \in {None, p}, m \in {None, p}, r \in {None, p}}

\* UserService.update_user(email, current_password, new_password, new_name,
\* new_memo, new_role); pw_ok: whether current_password verifies against the
\* stored hash
UpdateUserWith(p, edits) ==
    /\ pc[p] = "idle"
    /\ \E e \in Emails, ok \in BOOLEAN, ed \in edits :
        /\ Begin(p, [NoReq EXCEPT !.op = "update_user", !.email = e, !.pw_ok = ok,
                                  !.new_name = ed.new_name,
                                  !.new_password = ed.new_password,
                                  !.new_memo = ed.new_memo,
                                  !.new_role = ed.new_role])
        /\ UNCHANGED usedIds

\* update_user with a new name only
UpdateUser(p) ==
    UpdateUserWith(p, {ed \in UserEdits(p) :
                         /\ ed.new_name # None /\ ed.new_password = None
                         /\ ed.new_memo = None /\ ed.new_role = None})

\* AuthService.login(email, password)
Login(p) ==
    \E e \in Emails, ok \in BOOLEAN :
        /\ Begin(p, [NoReq EXCEPT !.op = "login", !.email = e, !.pw_ok = ok])
        /\ UNCHANGED usedIds

\* create_user(name, email, password) with the password it is given and the
\* salt the hasher will draw
CreateUserAs(p) ==
    /\ pc[p] = "idle"
    /\ \E id \in LeastUnused, e \in Emails, w \in Plaintexts \cup {Oversize},
          salt \in Salts :
        /\ Begin(p, [NoReq EXCEPT !.op = "create_user", !.id = id, !.email = e,
                                  !.new_name = "n1", !.password = w, !.salt = salt])
        /\ usedIds' = usedIds \cup {id}

\* update_user(email, current_password, new_password) with the passwords it
\* is given
UpdateUserAs(p) ==
    /\ pc[p] = "idle"
    /\ \E e \in Emails, w \in Plaintexts, nw \in {None} \cup Plaintexts \cup {Oversize},
          salt \in Salts :
        /\ Begin(p, [NoReq EXCEPT !.op = "update_user", !.email = e, !.password = w,
                                  !.new_password = nw, !.salt = salt])
        /\ UNCHANGED usedIds

\* login(email, password) with the password it is given
LoginAs(p) ==
    /\ pc[p] = "idle"
    /\ \E e \in Emails, w \in Plaintexts \cup {Oversize} :
        /\ Begin(p, [NoReq EXCEPT !.op = "login", !.email = e, !.password = w])
        /\ UNCHANGED usedIds

\* where the scope body starts after __aenter__: create_user and update_user
\* call self.find_user_by_email, which enters self.uow again
AfterEnter(op, at) ==
    IF at = "enter2" THEN "find"
    ELSE CASE op \in {"create_note", "save_twice"} -> "save"
           [] op = "login" -> "find"
           [] op \in {"update_note", "delete_note", "get_note"} -> "nfind"
           [] OTHER -> "enter2"

\* async with self.uow as uow: SqlAlchemyUnitOfWork.__aenter__
AEnter(p) ==
    /\ pc[p] \in {"enter", "enter2"}
    /\ sessions' = [sessions EXCEPT ![p] = EnterSession(@)]
    /\ uowSession' = [uowSession EXCEPT ![p] = Len(sessions[p]) + 1]
    /\ hist' = [hist EXCEPT ![p] = Append(@, Ev("begin", Len(sessions[p]) + 1, "ok", "open"))]
    /\ pc' = [pc EXCEPT ![p] = AfterEnter(req[p].op, pc[p])]
    /\ UNCHANGED <<db, clock, usedIds, faultsLeft, req, exc, found, result, pager>>

\* create_user without its existence check
AfterFindNoConflict(op, f, pw_ok) ==
    CASE op = "create_user" -> NoExc
      [] OTHER -> IF f = {} THEN "NotFound"
                  ELSE IF ~pw_ok THEN "Unauthorized" ELSE NoExc

\* the checks that follow the user lookup in each service method
\* (create_user: Conflict; update_user and login: NotFound, Unauthorized)
AfterFind(op, f, pw_ok) ==
    CASE op = "create_user" -> IF f # {} THEN "Conflict" ELSE NoExc
      [] OTHER -> IF f = {} THEN "NotFound"
                  ELSE IF ~pw_ok THEN "Unauthorized" ELSE NoExc

\* self.hasher.verify(password, user.password) of login and update_user for
\* a request that carries its password; a request that leaves the password
\* abstract carries the outcome in pw_ok
Verified(q, f) ==
    IF q.password = None \/ f = {} THEN [value |-> q.pw_ok, exc |-> NoExc]
    ELSE verify(q.password, (CHOOSE u \in f : TRUE).password)

\* the checks after the lookup, with the exception verify may raise
Checked(q, f) ==
    IF q.op # "create_user" /\ f # {} /\ Verified(q, f).exc # NoExc
      THEN Verified(q, f).exc
      ELSE AfterFind(q.op, f, Verified(q, f).value)

\* a token that carries the default role of a new user
LoginTokenDefaultRole(f, now) ==
    LET user == CHOOSE u \in f : TRUE
    IN create_access_token(user.id, "user", [given |-> FALSE, d |-> 0], now)

\* the access token login returns: sub = user.id, role = user.role, the
\* default lifetime
LoginToken(f, now) ==
    LET user == CHOOSE u \in f : TRUE
    IN create_access_token(user.id, user.role, [given |-> FALSE, d |-> 0], now)

NextStep(op) == IF op = "create_user" THEN "usave" ELSE "uupdate"

\* SqlAlchemyUserRepository.find_by_email on the session the repository is
\* bound to, and for login the checks after it
FindByEmail(p) ==
    /\ pc[p] = "find"
    /\ LET k == uowSession[p]
           s == sessions[p][k]
           q == req[p]
           f == {u \in db.user : u.email = q.email}
       IN \E r \in AwaitOutcomes :
            /\ faultsLeft' = FaultsAfter(r)
            /\ sessions' = [sessions EXCEPT ![p][k] = Autobegin(s)]
            /\ hist' = [hist EXCEPT ![p] = Append(@, Ev("query", k, r, OpenOrClosed(s)))]
            /\ found' = [found EXCEPT ![p] = IF r = "ok" THEN f ELSE {}]
            /\ exc' = [exc EXCEPT ![p] =
                         IF r # "ok" THEN r
                         ELSE IF q.op = "login" THEN Checked(q, f)
                         ELSE NoExc]
            /\ req' = IF r = "ok" /\ q.op = "login" /\ Checked(q, f) = NoExc
                        THEN [req EXCEPT ![p].token = LoginToken(f, clock)]
                        ELSE req
            /\ pc' = [pc EXCEPT ![p] = IF q.op = "login" THEN "exit" ELSE "exit2"]
    /\ UNCHANGED <<db, clock, usedIds, uowSession, result, pager>>


\* a lookup by id alone, whoever owns the note
LoadedAnyOwner(d, id, user_id) ==
    {[row |-> n, tags |-> {a.tag_id : a \in {b \in d.note_tag : b.note_id = n.id}}] :
        n \in {m \in d.note : m.id = id}}

\* select(NoteModel).where(id, user_id).options(selectinload(tags)): the
\* model object with its loaded tags collection (ids of the associated Tag
\* rows); the empty set when no row matches
Loaded(d, id, user_id) ==
    {[row |-> n, tags |-> {a.tag_id : a \in {b \in d.note_tag : b.note_id = n.id}}] :
        n \in {m \in d.note : m.id = id /\ m.user_id = user_id}}

\* names of the Tag rows with the given ids
TagNamesOf(d, tag_ids) == {t.name : t \in {u \in d.tag : u.id \in tag_ids}}

\* SqlAlchemyNoteRepository.find_by_id followed by the NotFound check of
\* update_note, delete_note and get_note; the object stays in the session
FindById(p) ==
    /\ pc[p] = "nfind"
    /\ LET k == uowSession[p]
           s == sessions[p][k]
           q == req[p]
           f == Loaded(db, q.id, q.user_id)
       IN \E r \in AwaitOutcomes :
            /\ faultsLeft' = FaultsAfter(r)
            /\ sessions' = [sessions EXCEPT ![p][k] = Autobegin(s)]
            /\ hist' = [hist EXCEPT ![p] = Append(@, Ev("query", k, r, OpenOrClosed(s)))]
            /\ found' = [found EXCEPT ![p] = IF r = "ok" THEN f ELSE {}]
            /\ exc' = [exc EXCEPT ![p] =
                         IF r # "ok" THEN r ELSE IF f = {} THEN "NotFound" ELSE NoExc]
            /\ pc' = [pc EXCEPT ![p] =
                        IF r # "ok" \/ f = {} \/ q.op = "get_note" THEN "exit"
                        ELSE IF q.op = "delete_note" THEN "ndelete" ELSE "save"]
    /\ UNCHANGED <<db, clock, usedIds, req, uowSession, result, pager>>

\* the tag models save resolves for note.tags: the Tag row the batch query
\* returned for the name, else a new TagModel carrying the id of the Tag
\* object (existing_tag is not extended inside the loop)
TagModels(d, q) ==
    [i \in DOMAIN q.tag_names |->
        IF \E t \in d.tag : t.name = q.tag_names[i]
          THEN CHOOSE t \in d.tag : t.name = q.tag_names[i]
          ELSE TagRow(<<q.tid, i>>, q.tag_names[i])]

\* an update_note that takes absent tag_names for an empty list
ResolvedTagsAbsentAsEmpty(d, q, model) ==
    IF q.has_tags THEN {TagModels(d, q)[i] : i \in DOMAIN q.tag_names}
    ELSE {}

\* note.tags as save receives it: built from cmd.tag_names, or (update_note
\* without tag_names) the tags find_by_id loaded, which the batch query finds
\* again by name
ResolvedTags(d, q, model) ==
    IF q.has_tags THEN {TagModels(d, q)[i] : i \in DOMAIN q.tag_names}
    ELSE UNION {{CHOOSE t \in d.tag : t.name = nm} :
                   nm \in UNION {TagNamesOf(d, m.tags) : m \in model}}

\* the Note object passed to save: the command's values, over the values
\* find_by_id loaded where the command supplies none; updated_at is now
NoteValues(q, model) ==
    LET old == IF model = {} THEN NoteRow(q.id, q.user_id, q.title, q.content,
                                          q.memo_date, q.now, q.now)
               ELSE (CHOOSE m \in model : TRUE).row
    IN [old EXCEPT !.title = IF q.title # None THEN q.title ELSE @,
                   !.content = IF q.content # None THEN q.content ELSE @,
                   !.memo_date = IF q.memo_date # None THEN q.memo_date ELSE @,
                   !.updated_at = q.now]

\* the changes SqlAlchemyNoteRepository.save leaves in its session. Its
\* SELECT (no autoflush: pending objects are not seen) finds the stored row or
\* not. Not found: a new NoteModel is added and gets all resolved tags. Found:
\* the object of the identity map (the one find_by_id loaded, if any) gets the
\* four attributes and the tags collection assigned; the flush will UPDATE the
\* attributes whose value changed and INSERT / DELETE the difference between
\* the assigned and the loaded collection. A TagModel is added for every name
\* the batch query did not return.
SaveRows(d, pend, q, ld) ==
    LET stored == Loaded(d, q.id, q.user_id)
        model == IF ld # {} THEN ld ELSE stored
        nv == NoteValues(q, model)
        tm == ResolvedTags(d, q, model)
        newTags == tm \ d.tag
        tmIds == {t.id : t \in tm}
        dupNote == stored = {} /\ \E n \in pend.note : n.id = q.id
        dupTag == \E t \in newTags : \E u \in pend.tag : u.id = t.id
        dup == (IF dupNote THEN {"note"} ELSE {})
               \cup (IF dupTag THEN {"tag"} ELSE {})
               \cup (IF stored = {} /\ ld # {} THEN {"identity"} ELSE {})
    IN IF stored = {}
         THEN [EmptyPend EXCEPT
                 !.note = {nv},
                 !.tag = newTags,
                 !.note_tag = {NoteTagRow(q.id, i) : i \in tmIds},
                 !.dup = dup]
         ELSE LET m == CHOOSE x \in model : TRUE
                  c == NoteChange(q.id,
                         IF nv.title # m.row.title THEN nv.title ELSE "None",
                         IF nv.content # m.row.content THEN nv.content ELSE "None",
                         IF nv.memo_date # m.row.memo_date THEN nv.memo_date ELSE "None",
                         IF nv.updated_at # m.row.updated_at THEN nv.updated_at ELSE 0)
              IN [EmptyPend EXCEPT
                    !.upd_note = IF c = NoteChange(q.id, "None", "None", "None", 0)
                                   THEN {} ELSE {c},
                    !.tag = newTags,
                    !.note_tag = {NoteTagRow(q.id, i) : i \in tmIds \ m.tags},
                    !.del_note_tag = {NoteTagRow(q.id, i) : i \in m.tags \ tmIds},
                    !.dup = dup]

\* a repository that writes through to storage instead of leaving the
\* transaction to the Unit of Work
AddPendingAutocommit(s, d, rows) ==
    [s |-> [s EXCEPT !.tx = "active"],
     d |-> [f \in DOMAIN d |-> d[f] \cup rows[f]]]

\* session.add / attribute assignment: the changes stay in the session until
\* commit flushes them (the repositories neither begin nor commit)
AddPending(s, d, rows) ==
    [s |-> [s EXCEPT !.tx = "active",
                     !.pend = [f \in DOMAIN s.pend |-> s.pend[f] \cup rows[f]]],
     d |-> d]

\* Note.change_title / change_content / change_memo_date, called by
\* update_note for the fields the command supplies, raise ValueError
ChangeRaises(q) ==
    /\ q.op = "update_note"
    /\ \/ q.title # None /\ (Chars(q.title) = 0 \/ Chars(q.title) > TITLE_MAX_LENGTH)
       \/ q.content # None /\ Chars(q.content) < CONTENT_MIN_LENGTH
       \/ q.memo_date # None /\ Chars(q.memo_date) # MEMO_DATE_LENGTH

\* the body of create_note, and of update_note after the lookup: the field
\* changes (update_note), the tag count check, then note_repository.save
NoteSave(p) ==
    /\ pc[p] \in {"save", "save2"}
    /\ LET k == uowSession[p]
           s == sessions[p][k]
           q == req[p]
       IN IF ChangeRaises(q) \/ (q.has_tags /\ Len(q.tag_names) > MAX_TAGS_PER_NOTE)
            THEN /\ exc' = [exc EXCEPT ![p] = "ValueError"]
                 /\ pc' = [pc EXCEPT ![p] = "exit"]
                 /\ UNCHANGED <<db, faultsLeft, sessions, hist>>
            ELSE \E r \in AwaitOutcomes :
                   LET eff == IF r = "ok"
                                THEN AddPending(s, db, SaveRows(db, s.pend, q, found[p]))
                                ELSE [s |-> Autobegin(s), d |-> db]
                   IN /\ faultsLeft' = FaultsAfter(r)
                      /\ sessions' = [sessions EXCEPT ![p][k] = eff.s]
                      /\ db' = eff.d
                      /\ hist' = [hist EXCEPT ![p] = Append(@, Ev("save", k, r, OpenOrClosed(s)))]
                      /\ exc' = [exc EXCEPT ![p] = IF r = "ok" THEN NoExc ELSE r]
                      /\ pc' = [pc EXCEPT ![p] =
                                  IF r = "ok" /\ q.op = "save_twice" /\ pc[p] = "save"
                                    THEN "save2" ELSE "exit"]
    /\ UNCHANGED <<clock, usedIds, req, uowSession, found, result, pager>>

\* the body of delete_note after the lookup: note.remove_all_tags() empties
\* the Note object only; note_repository.delete selects the row again and
\* marks the model object deleted, or returns False
NoteDelete(p) ==
    /\ pc[p] = "ndelete"
    /\ LET k == uowSession[p]
           s == sessions[p][k]
           q == req[p]
           stored == Loaded(db, q.id, q.user_id)
       IN \E r \in AwaitOutcomes :
            LET eff == IF r = "ok" /\ stored # {}
                         THEN AddPending(s, db, [EmptyPend EXCEPT !.del_note = {q.id}])
                         ELSE [s |-> Autobegin(s), d |-> db]
            IN /\ faultsLeft' = FaultsAfter(r)
               /\ sessions' = [sessions EXCEPT ![p][k] = eff.s]
               /\ db' = eff.d
               /\ hist' = [hist EXCEPT ![p] =
                             Append(@, Ev(IF stored # {} THEN "delete" ELSE "delete_none",
                                          k, r, OpenOrClosed(s)))]
               /\ exc' = [exc EXCEPT ![p] = IF r = "ok" THEN NoExc ELSE r]
    /\ pc' = [pc EXCEPT ![p] = "exit"]
    /\ UNCHANGED <<clock, usedIds, req, uowSession, found, result, pager>>

\* self.hasher.encrypt(raw) in create_user and update_user; a request that
\* leaves its password abstract carries the resulting hash
Encrypted(raw, salt, abstract) ==
    IF salt = None THEN [value |-> abstract, exc |-> NoExc] ELSE encrypt(raw, salt)

\* the body of create_user after the lookup: the password is hashed, and
\* user_repository.save adds the row; its session.flush() is not awaited, so
\* nothing is sent before commit
UserSave(p) ==
    /\ pc[p] = "usave"
    /\ LET k == uowSession[p]
           s == sessions[p][k]
           q == req[p]
           h == Encrypted(q.password, q.salt, "h1")
           eff == AddPending(s, db, [EmptyPend EXCEPT
                                       !.user = {UserRow(q.id, q.email, q.new_name,
                                                         h.value, None, "user",
                                                         clock, clock)}])
       IN IF h.exc # NoExc
            THEN /\ exc' = [exc EXCEPT ![p] = h.exc]
                 /\ UNCHANGED <<sessions, db, hist>>
            ELSE /\ sessions' = [sessions EXCEPT ![p][k] = eff.s]
                 /\ db' = eff.d
                 /\ hist' = [hist EXCEPT ![p] = Append(@, Ev("add", k, "ok", OpenOrClosed(s)))]
                 /\ UNCHANGED exc
    /\ pc' = [pc EXCEPT ![p] = "exit"]
    /\ UNCHANGED <<clock, usedIds, faultsLeft, req, uowSession, found, result, pager>>

\* the changes dict of update_user as the flush of user_repository.update
\* sends it: the supplied values and updated_at = now, of which the UPDATE
\* sets those that differ from the row the repository selected
UserChanges(q, now, row) ==
    UserChange(row.id,
               IF q.new_name # None /\ q.new_name # row.name THEN q.new_name ELSE "None",
               IF q.new_password # None
                  /\ Encrypted(q.new_password, q.salt, q.new_password).value # row.password
                 THEN Encrypted(q.new_password, q.salt, q.new_password).value ELSE "None",
               IF q.new_memo # None /\ q.new_memo # row.memo THEN q.new_memo ELSE "None",
               IF q.new_role # None /\ q.new_role # row.role THEN q.new_role ELSE "None",
               IF now # row.updated_at THEN now ELSE 0)

\* the body of update_user after the lookup: the changes dict is built, now
\* is read, and user_repository.update selects the row by id, sets the
\* attributes, flushes and refreshes
UserUpdate(p) ==
    /\ pc[p] = "uupdate"
    /\ LET k == uowSession[p]
           s == sessions[p][k]
           q == req[p]
           u == CHOOSE u \in found[p] : TRUE
           rows == {v \in db.user : v.id = u.id}
       IN IF q.new_password # None
             /\ Encrypted(q.new_password, q.salt, q.new_password).exc # NoExc
            THEN /\ exc' = [exc EXCEPT ![p] =
                               Encrypted(q.new_password, q.salt, q.new_password).exc]
                 /\ UNCHANGED <<faultsLeft, sessions, db, hist, req>>
            ELSE
          \E r \in AwaitOutcomes :
            LET eff == IF r = "ok" /\ rows # {}
                         THEN LET c == UserChanges(q, clock, CHOOSE v \in rows : TRUE)
                              IN AddPending(s, db, [EmptyPend EXCEPT
                                   !.upd = IF c = UserChange(u.id, "None", "None",
                                                             "None", "None", 0)
                                             THEN {} ELSE {c}])
                         ELSE [s |-> Autobegin(s), d |-> db]
            IN /\ faultsLeft' = FaultsAfter(r)
               /\ sessions' = [sessions EXCEPT ![p][k] = eff.s]
               /\ db' = eff.d
               /\ hist' = [hist EXCEPT ![p] = Append(@, Ev("update", k, r, OpenOrClosed(s)))]
               /\ exc' = [exc EXCEPT ![p] = IF r = "ok" THEN NoExc ELSE r]
               /\ req' = [req EXCEPT ![p].now = clock]
    /\ pc' = [pc EXCEPT ![p] = "exit"]
    /\ UNCHANGED <<clock, usedIds, uowSession, found, result, pager>>

\* SqlAlchemyUnitOfWork.__aexit__(exc_type, exc, tb) on uow.session:
\*   try: rollback() if exc_type else commit()   finally: close()
\* and the continuation of the caller: the service method returns or raises,
\* or (leaving find_user_by_email) the outer scope body goes on
AExit(p) ==
    /\ pc[p] \in {"exit", "exit2"}
    /\ LET k == uowSession[p]
           s == sessions[p][k]
           q == req[p]
           e == exc[p]
           call == ExitCall(e)
       IN \E r \in TxOutcomes(call, s) :
            LET raised == IF r = "ok" THEN NoExc ELSE r
                out == Propagated(e, raised)
                after == IF out # NoExc THEN out ELSE Checked(q, found[p])
            IN /\ faultsLeft' = FaultsAfter(r)
               /\ db' = IF call = "commit" /\ r = "ok" THEN ApplyPending(db, s.pend) ELSE db
               /\ sessions' = [sessions EXCEPT ![p][k] = ExitSession(s, call, r)]
               /\ hist' = [hist EXCEPT ![p] =
                             @ \o <<Ev(call, k, r, OpenOrClosed(s)),
                                    Ev("close", k, "ok", OpenOrClosed(s)),
                                    Ev("exit", k, out, e)>>]
               /\ IF pc[p] = "exit"
                    THEN /\ pc' = [pc EXCEPT ![p] = "done"]
                         /\ result' = [result EXCEPT ![p] = IF out = NoExc THEN "ok" ELSE out]
                         /\ exc' = [exc EXCEPT ![p] = NoExc]
                    ELSE /\ pc' = [pc EXCEPT ![p] = IF after # NoExc THEN "exit"
                                                    ELSE NextStep(q.op)]
                         /\ exc' = [exc EXCEPT ![p] = after]
                         /\ UNCHANGED result
    /\ UNCHANGED <<clock, usedIds, req, uowSession, found, pager>>

\* register_exception_handlers: the error_code of the response for an
\* exception that leaves a route, chosen by the type of the exception
\* (RequestValidationError, BaseAppException subclasses, SQLAlchemyError,
\* any other Exception)
ErrorKind(e) ==
    CASE e \in {"RequestValidationError", "ValidationException"} -> "VALIDATION_ERROR"
      [] e = "NotFound" -> "NOT_FOUND"
      [] e = "Conflict" -> "CONFLICT"
      [] e = "Unauthorized" -> "UNAUTHORIZED"
      [] e = "Forbidden" -> "FORBIDDEN"
      [] e \in {"IntegrityError", "StaleDataError", "FlushError", "DataError",
                "StorageError", "CommitError", "RollbackError"} -> "DATABASE_ERROR"
      [] OTHER -> "INTERNAL_SERVER_ERROR"

\* --------------------------------------------- JwtProvider: verification
\* jwt.decode without the expiry check
decode_ignoring_exp(token, now) ==
    IF token.sig # "valid" THEN "Unauthorized" ELSE "payload"

\* JwtProvider.decode_access_token at time now: jwt.decode verifies the
\* signature, then raises ExpiredSignatureError when exp <= now
decode_access_token(token, now) ==
    IF token.sig # "valid" THEN "Unauthorized"
    ELSE IF token.exp * 2 <= now THEN "Unauthorized"
    ELSE "payload"

\* JwtProvider.get_current_user at time now ("ok": a CurrentUser is returned)
get_current_user(token, now) ==
    LET payload == decode_access_token(token, now)
    IN IF payload # "payload" THEN payload
       ELSE IF token.sub \in {None, ""} \/ token.role \in {None, ""} THEN "Forbidden"
       ELSE "ok"

\* a token is issued to a client
Issue(p) ==
    /\ pc[p] = "idle"
    /\ \E sub \in {None, "u1"}, role \in {"", "user"}, ttl \in Ttls :
          req' = [req EXCEPT ![p] =
                    [NoReq EXCEPT !.op = "token", !.user_id = sub, !.role = role,
                                  !.ttl = ttl, !.now = clock,
                                  !.token = create_access_token(sub, role, ttl, clock)]]
    /\ pc' = [pc EXCEPT ![p] = "holding"]
    /\ UNCHANGED <<db, clock, usedIds, faultsLeft, sessions, uowSession, exc, found,
                   result, hist, pager>>

\* the client alters the payload of its token (a later expiry, a subject)
\* without the key: the signature no longer verifies
Tamper(p) ==
    /\ pc[p] = "holding"
    /\ req[p].token.sig = "valid"
    /\ req' = [req EXCEPT ![p].token =
                  [@ EXCEPT !.sub = "u1", !.exp = @ + Minutes(1), !.sig = "invalid"]]
    /\ UNCHANGED <<db, clock, usedIds, faultsLeft, pc, sessions, uowSession, exc,
                   found, result, hist, pager>>

\* a request presents the token: get_current_user_from_token
Verify(p) ==
    /\ pc[p] = "holding"
    /\ result' = [result EXCEPT ![p] = get_current_user(req[p].token, clock)]
    /\ pc' = [pc EXCEPT ![p] = "done"]
    /\ UNCHANGED <<db, clock, usedIds, faultsLeft, req, sessions, uowSession, exc,
                   found, hist, pager>>

\* half a second passes
HalfSecond ==
    /\ clock < MaxTokenClock
    /\ clock' = clock + 1
    /\ UNCHANGED <<db, usedIds, faultsLeft, procVars, pager>>

\* ------------------------------------------------------------ pagination
\* datetime.isoformat() / datetime.fromisoformat() of a naive datetime
IsoFormat(t) == [iso |-> t]
FromIsoFormat(x) == x.iso

\* a segment datetime.fromisoformat does not parse (empty, or other text)
NotIso == [iso |-> 0]

\* f"{created_at.isoformat()}_{id}" for an id given by its segments between
\* "_" (0: an empty segment)
encode(created_at, id_segments) == <<IsoFormat(created_at)>> \o id_segments

\* a string is kept as the list of its segments between "_"; a uuid4 string
\* has no "_", so it is one segment
IdSegments(id) == <<id>>

\* a next_cursor built from the first item of the page
NextCursorOfFirst(notes) ==
    IF notes # <<>>
      THEN <<IsoFormat(notes[1].created_at)>> \o IdSegments(notes[1].id)
      ELSE <<>>

\* NoteService.get_notes: next_cursor = f"{created_at.isoformat()}_{id}" of
\* the last note of the page, None (<<>>) for an empty page
NextCursor(notes) ==
    IF notes # <<>>
      THEN <<IsoFormat(notes[Len(notes)].created_at)>> \o IdSegments(notes[Len(notes)].id)
      ELSE <<>>

\* parse_cursor: split at "_", parts[0] parsed as the timestamp, parts[1] the
\* id; (None, None), written (0, 0), without a cursor
parse_cursor(cursor) ==
    IF cursor # <<>> THEN <<FromIsoFormat(cursor[1]), cursor[2]>> ELSE <<0, 0>>

\* what parse_cursor raises: ValueError from datetime.fromisoformat(parts[0]),
\* IndexError from parts[1] when the string has no "_"
CursorRaises(cursor) ==
    IF cursor = <<>> THEN NoExc
    ELSE IF cursor[1] = NotIso THEN "ValueError"
    ELSE IF Len(cursor) < 2 THEN "IndexError"
    ELSE NoExc

\* the keyset predicate on created_at alone, strict and non-strict
KeysetLessNoTieBreak(a, b) == a[1] < b[1]

KeysetLessOrEqual(a, b) == a[1] <= b[1]

\* tuple_(created_at, id) < (cursor_created_at, cursor_id): row comparison
KeysetLess(a, b) == a[1] < b[1] \/ (a[1] = b[1] /\ a[2] < b[2])

NoteKey(n) == <<n.created_at, n.id>>

\* order_by(created_at.desc(), id.desc()): n comes before m
OrderedBefore(n, m) ==
    n.created_at > m.created_at \/ (n.created_at = m.created_at /\ n.id > m.id)

\* ORDER BY created_at DESC, id DESC LIMIT limit
RECURSIVE FirstDesc(_, _)
FirstDesc(rows, limit) ==
    IF rows = {} \/ limit = 0 THEN <<>>
    ELSE LET top == CHOOSE n \in rows : \A m \in rows : m = n \/ OrderedBefore(n, m)
         IN <<top>> \o FirstDesc(rows \ {top}, limit - 1)

\* get_notes without the owner filter
get_notes_of_all(d, user_id, limit, cursor_created_at, cursor_id) ==
    FirstDesc({n \in d.note :
                 (cursor_created_at # 0 /\ cursor_id # 0)
                      => (n.created_at < cursor_created_at
                          \/ (n.created_at = cursor_created_at /\ n.id < cursor_id))},
              limit)

\* SqlAlchemyNoteRepository.get_notes
get_notes(d, user_id, limit, cursor_created_at, cursor_id) ==
    FirstDesc({n \in d.note :
                 /\ n.user_id = user_id
                 /\ (cursor_created_at # 0 /\ cursor_id # 0)
                      => KeysetLess(NoteKey(n), <<cursor_created_at, cursor_id>>)},
              limit)

\* the notes that have a tag, whatever its name
get_notes_with_any_tag(d, user_id, tag_name, limit, cursor_created_at, cursor_id) ==
    FirstDesc({n \in d.note :
                 /\ n.user_id = user_id
                 /\ \E a \in d.note_tag : a.note_id = n.id
                 /\ (cursor_created_at # 0 /\ cursor_id # 0)
                      => KeysetLess(NoteKey(n), <<cursor_created_at, cursor_id>>)},
              limit)

\* SqlAlchemyNoteRepository.get_notes_by_tag_name: NoteModel.tags.any(name ==
\* tag_name) is an EXISTS over note_tag and tag
get_notes_by_tag_name(d, user_id, tag_name, limit, cursor_created_at, cursor_id) ==
    FirstDesc({n \in d.note :
                 /\ n.user_id = user_id
                 /\ \E a \in d.note_tag, t \in d.tag :
                       a.note_id = n.id /\ t.id = a.tag_id /\ t.name = tag_name
                 /\ (cursor_created_at # 0 /\ cursor_id # 0)
                      => KeysetLess(NoteKey(n), <<cursor_created_at, cursor_id>>)},
              limit)

PageOwner == "u1"

OwnedIds(d) == {n.id : n \in {m \in d.note : m.user_id = PageOwner}}

Range(f) == {f[i] : i \in DOMAIN f}

\* GET /notes?limit=&cursor= : the router parses the cursor, get_notes reads
\* one page and builds next_cursor; the client passes next_cursor to the next
\* request until it is None. start, snap, late and seen record the chain: the
\* owner's notes stored at the first fetch, those stored at the latest fetch,
\* the notes committed between two fetches (with the cursor then in use) and
\* the ids returned so far.
FetchPage ==
    /\ pager.state \in {"first", "next"}
    /\ IF CursorRaises(pager.cursor) # NoExc
         THEN pager' = [pager EXCEPT !.state = "failed",
                                     !.error = CursorRaises(pager.cursor)]
         ELSE
       LET c == parse_cursor(pager.cursor)
           notes == get_notes(db, PageOwner, pager.limit, c[1], c[2])
           next_cursor == NextCursor(notes)
           new == {n \in db.note : n.user_id = PageOwner /\ n.id \notin pager.snap}
       IN pager' = [pager EXCEPT
                      !.state = IF next_cursor = <<>> THEN "finished" ELSE "next",
                      !.cursor = next_cursor,
                      !.parsed = IF pager.state = "first" THEN c ELSE @,
                      !.fetches = @ + 1,
                      !.seen = @ \o [i \in DOMAIN notes |-> notes[i].id],
                      !.start = IF pager.state = "first" THEN OwnedIds(db) ELSE @,
                      !.snap = OwnedIds(db),
                      !.late = IF pager.state = "first" THEN {}
                               ELSE @ \cup {[id |-> n.id, created_at |-> n.created_at,
                                             cur |-> c] : n \in new}]
    /\ UNCHANGED <<db, clock, usedIds, faultsLeft, procVars>>

\* GET /notes/tags/{tag_name}/notes?limit=&cursor= : as FetchPage, with
\* get_notes_by_tag_name
FetchTagPage ==
    /\ pager.state \in {"first", "next"}
    /\ IF CursorRaises(pager.cursor) # NoExc
         THEN pager' = [pager EXCEPT !.state = "failed",
                                     !.error = CursorRaises(pager.cursor)]
         ELSE
       LET c == parse_cursor(pager.cursor)
           notes == get_notes_by_tag_name(db, PageOwner, pager.tag, pager.limit,
                                          c[1], c[2])
           next_cursor == NextCursor(notes)
       IN pager' = [pager EXCEPT
                      !.state = IF next_cursor = <<>> THEN "finished" ELSE "next",
                      !.cursor = next_cursor,
                      !.parsed = IF pager.state = "first" THEN c ELSE @,
                      !.fetches = @ + 1,
                      !.seen = @ \o [i \in DOMAIN notes |-> notes[i].id]]
    /\ UNCHANGED <<db, clock, usedIds, faultsLeft, procVars>>

\* SqlAlchemyUserRepository.get_users_page
get_users_page(d, limit, cursor_created_at, cursor_id) ==
    FirstDesc({u \in d.user :
                 (cursor_created_at # 0 /\ cursor_id # 0)
                      => KeysetLess(<<u.created_at, u.id>>,
                                    <<cursor_created_at, cursor_id>>)},
              limit)

\* UserService.list_users: next_cursor of the last user of the page
UsersNextCursor(users) == NextCursor(users)

\* GET /users?limit=&cursor= : the route splits the cursor at "_" as
\* parse_cursor does, list_users reads one page and builds next_cursor; the
\* client passes next_cursor to the next request until it is None
FetchUserPage ==
    /\ pager.state \in {"first_users", "next_users"}
    /\ IF CursorRaises(pager.cursor) # NoExc
         THEN pager' = [pager EXCEPT !.state = "failed",
                                     !.error = CursorRaises(pager.cursor)]
         ELSE
       LET c == parse_cursor(pager.cursor)
           users == get_users_page(db, pager.limit, c[1], c[2])
           next_cursor == UsersNextCursor(users)
       IN pager' = [pager EXCEPT
                      !.state = IF next_cursor = <<>> THEN "finished_users"
                                ELSE "next_users",
                      !.cursor = next_cursor,
                      !.fetches = @ + 1,
                      !.seen = @ \o [i \in DOMAIN users |-> users[i].id]]
    /\ UNCHANGED <<db, clock, usedIds, faultsLeft, procVars>>

\* the clock advances
Tick ==
    /\ clock < MaxClock
    /\ clock' = clock + 1
    /\ UNCHANGED <<db, usedIds, faultsLeft, procVars, pager>>

\* ------------------------------------------------------- specification
InitUser == UserRow(0, "e1", "n0", "h0", "m0", "r0", 1, 1)

\* given: the cursor of the first request of the chain; parsed: what
\* parse_cursor returned for it; error: what the route raised
NoPager == [state |-> "off", limit |-> 0, cursor |-> <<>>, seen |-> <<>>,
            start |-> {}, late |-> {}, snap |-> {},
            given |-> <<>>, parsed |-> <<0, 0>>, error |-> NoExc, tag |-> None,
            fetches |-> 0]

InitProcs ==
    /\ pc = [p \in Procs |-> "idle"]
    /\ req = [p \in Procs |-> NoReq]
    /\ sessions = [p \in Procs |-> <<>>]
    /\ uowSession = [p \in Procs |-> 0]
    /\ exc = [p \in Procs |-> NoExc]
    /\ found = [p \in Procs |-> {}]
    /\ result = [p \in Procs |-> "pending"]
    /\ hist = [p \in Procs |-> <<>>]

\* one user is stored; the tag "a" may or may not exist
Init ==
    /\ \E tags \in SUBSET {TagRow(<<0, 1>>, "a")} :
          db = [EmptyDb EXCEPT !.user = {InitUser}, !.tag = tags]
    /\ clock = 1
    /\ usedIds = {}
    /\ faultsLeft = MaxFaults
    /\ InitProcs
    /\ pager = NoPager

Next ==
    \E p \in Procs :
        \/ CreateNote(p)
        \/ CreateUser(p)
        \/ UpdateUser(p)
        \/ Login(p)
        \/ AEnter(p)
        \/ FindByEmail(p)
        \/ NoteSave(p)
        \/ UserSave(p)
        \/ UserUpdate(p)
        \/ AExit(p)

Spec == Init /\ [][Next]_vars

\* Pagination under concurrent create_note requests (of notes without tags):
\* any set of stored notes (created_at not unique, ids in any order), any
\* limit, no storage faults.
InitPage ==
    /\ clock \in Times
    /\ \E ids \in SUBSET Ids :
         \E owner \in [ids -> Users], at \in [ids -> 1..clock] :
            /\ db = [EmptyDb EXCEPT
                       !.note = {NoteRow(i, owner[i], "t1", "c1", "d1", at[i], at[i]) :
                                    i \in ids}]
            /\ usedIds = ids
    /\ faultsLeft = 0
    /\ InitProcs
    /\ \E l \in 1..MaxLimit : pager = [NoPager EXCEPT !.state = "first", !.limit = l]

NextPage ==
    \/ \E p \in Procs :
          CreateNoteWith(p, <<>>) \/ AEnter(p) \/ NoteSave(p) \/ AExit(p)
    \/ Tick
    \/ FetchPage

SpecPage == InitPage /\ [][NextPage]_vars

\* get_notes alone, over every set of stored notes: a client follows the chain
\* of pages while nothing is written.
NextPageRead == FetchPage

SpecPageRead == InitPage /\ [][NextPageRead]_vars

\* The cursor chains of the note listing and of the user listing, each over
\* every set of stored rows, while nothing is written.
InitUserPage ==
    /\ clock \in Times
    /\ \E ids \in SUBSET Ids :
         \E at \in [ids -> 1..clock] :
            /\ db = [EmptyDb EXCEPT
                       !.user = {UserRow(i, "e" \o ToString(i), "n0", "h0", "m0", "r0",
                                         at[i], at[i]) : i \in ids}]
            /\ usedIds = ids
    /\ faultsLeft = 0
    /\ InitProcs
    /\ \E l \in 1..MaxLimit :
          pager = [NoPager EXCEPT !.state = "first_users", !.limit = l]

InitChain == InitPage \/ InitUserPage

NextChain == FetchPage \/ FetchUserPage

SpecChain == InitChain /\ [][NextChain]_vars

\* ids as strings: their segments between "_" (uuid4 strings have one; 0 is
\* an empty segment), the empty string excluded
IdStrings ==
    {<<i>> : i \in Ids} \cup {<<i, j>> : i \in {0, 1}, j \in {0, 2}}

\* the cursor strings a client may send: encoded keys, and strings without a
\* parseable timestamp, without "_", or with nothing after the "_"
CursorStrings ==
    {encode(t, i) : t \in Times, i \in IdStrings}
        \cup {<<NotIso, 1>>, <<NotIso>>}
        \cup {<<IsoFormat(t)>> : t \in Times}
        \cup {<<IsoFormat(t), 0>> : t \in Times}

\* GET /notes?cursor= with any cursor string, over any set of stored notes
InitCursor ==
    /\ clock \in Times
    /\ \E ids \in SUBSET Ids :
         \E at \in [ids -> 1..clock] :
            /\ db = [EmptyDb EXCEPT
                       !.note = {NoteRow(i, PageOwner, "t1", "c1", "d1", at[i], at[i]) :
                                    i \in ids}]
            /\ usedIds = ids
    /\ faultsLeft = 0
    /\ InitProcs
    /\ \E l \in 1..MaxLimit, c \in CursorStrings :
          pager = [NoPager EXCEPT !.state = "first", !.limit = l, !.cursor = c,
                                  !.given = c]

SpecCursor == InitCursor /\ [][NextPageRead]_vars

\* Listing by tag over stored notes with their tags. Three Tag rows are
\* stored, two of them with the same name; a note is stored untagged, with
\* "a", with "b", with "a" (the second row) and "b", or for another owner
\* with "a".
StoredTags == {TagRow(<<0, 1>>, "a"), TagRow(<<0, 2>>, "a"), TagRow(<<0, 3>>, "b")}

NoteKinds ==
    {[user_id |-> PageOwner, tags |-> {}],
     [user_id |-> PageOwner, tags |-> {<<0, 1>>}],
     [user_id |-> PageOwner, tags |-> {<<0, 3>>}],
     [user_id |-> PageOwner, tags |-> {<<0, 2>>, <<0, 3>>}],
     [user_id |-> "u2", tags |-> {<<0, 1>>}]}

CreatedAts == {1, 2}

InitTagPage ==
    /\ clock = 2
    /\ \E ids \in SUBSET Ids :
         \E kind \in [ids -> NoteKinds], at \in [ids -> CreatedAts] :
            /\ db = [EmptyDb EXCEPT
                       !.note = {NoteRow(i, kind[i].user_id, "t1", "c1", "d1",
                                         at[i], at[i]) : i \in ids},
                       !.tag = StoredTags,
                       !.note_tag = UNION {{NoteTagRow(i, t) : t \in kind[i].tags} :
                                             i \in ids}]
            /\ usedIds = ids
    /\ faultsLeft = 0
    /\ InitProcs
    /\ \E l \in 1..MaxLimit, nm \in NoteTagNames,
          c \in {<<>>} \cup {encode(t, <<i>>) : t \in CreatedAts, i \in Ids} :
          pager = [NoPager EXCEPT !.state = "first", !.limit = l, !.tag = nm,
                                  !.cursor = c, !.given = c]

NextTagPage == FetchTagPage

SpecTagPage == InitTagPage /\ [][NextTagPage]_vars

\* Note service calls executed one after another (p1, then p2), from a store
\* that is empty or holds one note left by an earlier create_note.
InitNote ==
    /\ clock \in Times
    /\ \/ db = [EmptyDb EXCEPT !.user = {InitUser}] /\ usedIds = {}
       \/ \E tl \in ShortTagLists :
            /\ db = [EmptyDb EXCEPT
                       !.user = {InitUser},
                       !.note = {NoteRow(1, PageOwner, "t1", "c1", "d1", 1, 1)},
                       !.tag = {TagRow(<<1, i>>, tl[i]) : i \in DOMAIN tl},
                       !.note_tag = {NoteTagRow(1, <<1, i>>) : i \in DOMAIN tl}]
            /\ usedIds = {1}
    /\ faultsLeft = 0
    /\ InitProcs
    /\ pager = NoPager

\* the order in which the sequential specification runs the requests
Earlier == {<<"p1", "p2">>}

Turn(p) == pc[p] = "idle" /\ \A e \in Earlier : e[2] = p => pc[e[1]] = "returned"

\* the service method has returned or raised: the request is over and its
\* service object and Unit of Work are dropped
Return(p) ==
    /\ pc[p] = "done"
    /\ pc' = [pc EXCEPT ![p] = "returned"]
    /\ req' = [req EXCEPT ![p] = NoReq]
    /\ sessions' = [sessions EXCEPT ![p] = <<>>]
    /\ uowSession' = [uowSession EXCEPT ![p] = 0]
    /\ found' = [found EXCEPT ![p] = {}]
    /\ result' = [result EXCEPT ![p] = "pending"]
    /\ hist' = [hist EXCEPT ![p] = <<>>]
    /\ UNCHANGED <<db, clock, usedIds, faultsLeft, exc, pager>>

NoteStep(p) ==
    AEnter(p) \/ FindById(p) \/ NoteSave(p) \/ NoteDelete(p) \/ AExit(p)

NextNoteSeq ==
    \/ \E p \in Procs :
          \/ Turn(p) /\ \E tn \in NoteTagLists : CreateNoteFrom(p, LeastUnused, tn)
          \/ Turn(p) /\ UpdateNoteWith(p, NoteEdits, TagArgs(NoteTagLists))
          \/ Turn(p) /\ DeleteNote(p)
          \/ Turn(p) /\ GetNote(p)
          \/ Turn(p) /\ SaveTwice(p)
          \/ NoteStep(p)
          \/ Return(p)

SpecNoteSeq == InitNote /\ [][NextNoteSeq]_vars

\* Concurrent note service calls: two requests interleaved at their awaits.
ConcurrentEdits == {e \in NoteEdits : e.content = None}

NextNote ==
    \E p \in Procs :
        \/ \E tn \in ShortTagLists : CreateNoteFrom(p, LeastUnused, tn)
        \/ UpdateNoteWith(p, ConcurrentEdits, TagArgs(ShortTagLists))
        \/ DeleteNote(p)
        \/ NoteStep(p)

SpecNote == InitNote /\ [][NextNote]_vars

\* create_note and update_note called one after another with well-formed and
\* malformed field values and tag lists.
NoteInputs ==
    {[title |-> t, content |-> c, memo_date |-> d] :
        t \in {"t1", "", "t65"}, c \in {"c1", ""}, d \in {"d1", "d7"}}

InputEdits ==
    {[title |-> t, content |-> c, memo_date |-> d] :
        t \in {None, "t2", "", "t65"}, c \in {None, ""}, d \in {None, "d7"}}

InputTagLists == {<<>>, <<"a">>, OversizedTags}

NextNoteInput ==
    \E p \in Procs :
        \/ Turn(p) /\ \E tn \in InputTagLists :
                         CreateNoteOf(p, LeastUnused, NoteInputs, tn)
        \/ Turn(p) /\ UpdateNoteWith(p, InputEdits, TagArgs(InputTagLists))
        \/ AEnter(p)
        \/ FindById(p)
        \/ NoteSave(p)
        \/ AExit(p)
        \/ Return(p)

SpecNoteInput == InitNote /\ [][NextNoteInput]_vars

\* Concurrent update_note calls (fields only, tag_names = None) while the
\* clock advances.
NextNoteClock ==
    \/ \E p \in Procs :
          \/ UpdateNoteWith(p, ConcurrentEdits, TagArgs({}))
          \/ AEnter(p)
          \/ FindById(p)
          \/ NoteSave(p)
          \/ AExit(p)
    \/ Tick

SpecNoteClock == InitNote /\ [][NextNoteClock]_vars

\* Two clients are issued tokens and present them, some time after the epoch.
InitToken ==
    /\ db = [EmptyDb EXCEPT !.user = {InitUser}]
    /\ clock \in {2, 3}
    /\ usedIds = {}
    /\ faultsLeft = 0
    /\ InitProcs
    /\ pager = NoPager

NextToken ==
    \/ \E p \in Procs : Issue(p) \/ Tamper(p) \/ Verify(p)
    \/ HalfSecond

SpecToken == InitToken /\ [][NextToken]_vars

\* Concurrent update_user calls, with any choice of supplied fields, on the
\* stored user while the clock advances; no storage faults.
InitUserUpdate ==
    /\ db = [EmptyDb EXCEPT !.user = {InitUser}]
    /\ clock \in Times
    /\ usedIds = {}
    /\ faultsLeft = 0
    /\ InitProcs
    /\ pager = NoPager

NextUserUpdate ==
    \/ \E p \in Procs :
          \/ UpdateUserWith(p, UserEdits(p))
          \/ AEnter(p)
          \/ FindByEmail(p)
          \/ UserUpdate(p)
          \/ AExit(p)
    \/ Tick

SpecUserUpdate == InitUserUpdate /\ [][NextUserUpdate]_vars

\* Users and their passwords: create_user, update_user and login with the
\* passwords they are given, over a store that holds one user whose password
\* was hashed by the hasher; no storage faults.
InitAuth ==
    /\ db = [EmptyDb EXCEPT
               !.user = {UserRow(0, "e1", "n0", Argon2("pw1", "s1"), "m0", "r0", 1, 1)}]
    /\ clock = 1
    /\ usedIds = {}
    /\ faultsLeft = 0
    /\ InitProcs
    /\ pager = NoPager

NextAuth ==
    \E p \in Procs :
        \/ CreateUserAs(p)
        \/ UpdateUserAs(p)
        \/ LoginAs(p)
        \/ AEnter(p)
        \/ FindByEmail(p)
        \/ UserSave(p)
        \/ UserUpdate(p)
        \/ AExit(p)

SpecAuth == InitAuth /\ [][NextAuth]_vars

\* The same calls over a store whose user row holds a password column value
\* written outside this core: a hash, the empty string, a plaintext, a
\* truncated hash, or the hash of another scheme.
StoredValues == {Argon2("pw1", "s1"), "", "pw1", "$argon2id$", "$2b$12$pw1"}

InitVerify ==
    /\ \E w \in StoredValues :
          db = [EmptyDb EXCEPT !.user = {UserRow(0, "e1", "n0", w, "m0", "r0", 1, 1)}]
    /\ clock = 1
    /\ usedIds = {}
    /\ faultsLeft = 0
    /\ InitProcs
    /\ pager = NoPager

SpecVerify == InitVerify /\ [][NextAuth]_vars


\* ===================================================== Unit of Work claims
Exits(p) == {i \in DOMAIN hist[p] : hist[p][i].e = "exit"}

RepoCalls == {"query", "save", "add", "update"}

CommitFailures == {"CommitError", "IntegrityError", "StaleDataError", "FlushError",
                   "DataError"}

\* storage holds nothing written by request p: no row carrying the id p
\* generated (note, its Tag rows, its associations, user) and no user row
\* renamed by p
NoChangesOf(p, d) ==
    /\ \A n \in d.note : req[p].id = 0 \/ n.id # req[p].id
    /\ \A t \in d.tag : req[p].id = 0 \/ t.id[1] # req[p].id
    /\ \A a \in d.note_tag : req[p].id = 0 \/ a.note_id # req[p].id
    /\ \A u \in d.user : (req[p].id = 0 \/ u.id # req[p].id) /\ u.name # p

\* C1: at every scope exit (not cancelled inside __aexit__), a body that ended
\* normally is followed by commit, a body that raised E is followed by
\* rollback and E is what leaves the scope, and the session is left committed
\* or rolled back.
C1_ScopeExit ==
    \A p \in Procs : \A i \in Exits(p) :
        LET x == hist[p][i]
            t == hist[p][i - 2]
        IN t.r # "CancelledInExit" =>
             /\ x.x = NoExc => t.e = "commit"
             /\ x.x # NoExc => t.e = "rollback" /\ x.r = x.x
             /\ i = Len(hist[p]) => sessions[p][x.s].tx \in {"committed", "rolledback"}

\* C2: while create_note has not returned normally - in particular after its
\* scope failed following a performed save - storage contains no note row,
\* Tag row or association row written by that save.
C2_FailedSaveLeavesNoRows ==
    \A p \in Procs :
        (req[p].op = "create_note" /\ result[p] # "ok") => NoChangesOf(p, db)

C2_Witness ==
    \E p \in Procs :
        /\ req[p].op = "create_note" /\ pc[p] = "done" /\ result[p] # "ok"
        /\ req[p].tag_names # <<>>
        /\ db.tag = {}
        /\ \E i \in DOMAIN hist[p] : hist[p][i].e = "save" /\ hist[p][i].r = "ok"

\* C3: when a service method has returned or raised, every session its Unit
\* of Work opened has been closed exactly once.
C3_ReleasedOnce ==
    \A p \in Procs :
        pc[p] = "done" => \A k \in DOMAIN sessions[p] : sessions[p][k].closes = 1

\* C4: a service call executes begin once, and no repository call is made on
\* a session that has been closed.
C4_OneBegin ==
    \A p \in Procs :
        /\ Cardinality({i \in DOMAIN hist[p] : hist[p][i].e = "begin"}) <= 1
        /\ \A i \in DOMAIN hist[p] :
              hist[p][i].e \in RepoCalls => hist[p][i].x = "open"

\* C5: a Unit of Work instance is never begun again after it was closed, and
\* a begin on an Active instance starts no second transaction.
C5_Lifecycle ==
    \A p \in Procs :
        /\ \A i, j \in DOMAIN hist[p] :
              (i < j /\ hist[p][i].e = "close") => hist[p][j].e # "begin"
        /\ Cardinality({k \in DOMAIN sessions[p] : sessions[p][k].tx = "active"}) <= 1

\* C6 as claimed: a commit that fails at scope exit is followed by a rollback
\* call before the session is closed, and storage has none of the changes.
C6_RollbackAfterFailedCommit ==
    \A p \in Procs : \A i \in DOMAIN hist[p] :
        (hist[p][i].e = "commit" /\ hist[p][i].r \in CommitFailures)
            => /\ hist[p][i + 1].e = "rollback"
               /\ NoChangesOf(p, db)

\* C6 amended: a commit that fails at scope exit is followed directly by
\* close (no rollback call); the close leaves the session without a
\* transaction and without pending changes, and when the failure is what the
\* service method raised, storage has none of the request's changes.
C6_FailedCommitDiscards ==
    \A p \in Procs : \A i \in DOMAIN hist[p] :
        (hist[p][i].e = "commit" /\ hist[p][i].r \in CommitFailures)
            => /\ hist[p][i + 1].e = "close"
               /\ hist[p][i + 1].s = hist[p][i].s
               /\ hist[p][i + 2].e = "exit"
               /\ hist[p][i + 2].r = hist[p][i].r
               /\ (i + 2 = Len(hist[p]) =>
                     /\ sessions[p][hist[p][i].s].closes >= 1
                     /\ sessions[p][hist[p][i].s].tx # "active"
                     /\ sessions[p][hist[p][i].s].pend = EmptyPend)
               /\ (result[p] \in CommitFailures => NoChangesOf(p, db))

C6_Witness ==
    \E p \in Procs :
        /\ result[p] \in CommitFailures
        /\ \E i \in DOMAIN hist[p] :
              hist[p][i].e \in {"save", "add", "update"} /\ hist[p][i].r = "ok"

\* C7: when the body raised E and rollback raised R, the session is still
\* closed and E, not R, leaves the scope.
C7_OriginalError ==
    \A p \in Procs : \A i \in Exits(p) :
        hist[p][i - 2].r = "RollbackError"
            => /\ hist[p][i - 1].e = "close"
               /\ hist[p][i].r = hist[p][i].x

\* C8: when a service method has returned or raised (cancelled or not), no
\* session its Unit of Work began is left with a pending transaction or
\* unclosed.
C8_Terminal ==
    \A p \in Procs :
        pc[p] = "done" =>
            \A k \in DOMAIN sessions[p] :
                /\ sessions[p][k].tx \in {"committed", "rolledback"}
                /\ sessions[p][k].closes >= 1


\* ======================================================= pagination claims
NoDuplicates(seq) == \A i, j \in DOMAIN seq : i # j => seq[i] # seq[j]

LateIds == {l.id : l \in pager.late}

\* position of a note relative to a cursor in (created_at desc, id desc)
SortsAfterCursor(l) ==
    l.created_at < l.cur[1] \/ (l.created_at = l.cur[1] /\ l.id < l.cur[2])

Cursors == {<<0, 0>>} \cup (Times \X Ids)

\* n is strictly less than the cursor c under (created_at, id)
StrictlyLess(n, c) ==
    n.created_at < c[1] \/ (n.created_at = c[1] /\ n.id < c[2])

\* n comes before m in (created_at descending, id descending)
Precedes(n, m) ==
    n.created_at > m.created_at \/ (n.created_at = m.created_at /\ n.id > m.id)

\* the notes a page may hold
Eligible(d, u, c) ==
    {n \in d.note : n.user_id = u /\ (c # <<0, 0>> => StrictlyLess(n, c))}

\* C11: for every owner, limit and cursor, the page get_notes returns holds at
\* most limit notes, all owned by the owner and (with a cursor) strictly less
\* than it, in (created_at desc, id desc) order, and it is the first limit
\* such notes: none left out sorts before one returned.
C11_PageContract ==
    \A u \in Users, l \in 1..MaxLimit, c \in Cursors :
        LET page == get_notes(db, u, l, c[1], c[2])
            el == Eligible(db, u, c)
        IN /\ Len(page) <= l
           /\ \A i \in DOMAIN page : page[i] \in el
           /\ \A i, j \in DOMAIN page : i < j => Precedes(page[i], page[j])
           /\ Len(page) = (IF Cardinality(el) < l THEN Cardinality(el) ELSE l)
           /\ \A n \in el \ Range(page) : \A i \in DOMAIN page : Precedes(page[i], n)

\* a second page was fetched with a cursor from a store that holds notes of
\* both owners, two of the page owner's with the same created_at, and more of
\* them below the cursor than the limit
C11_Witness ==
    /\ pager.state = "next"
    /\ Len(pager.seen) = 2 * pager.limit
    /\ \E n \in db.note : n.user_id # PageOwner
    /\ \E n, m \in db.note :
          /\ n.user_id = PageOwner /\ m.user_id = PageOwner
          /\ n.id # m.id /\ n.created_at = m.created_at

\* rows of the Tag table with the given name
TagRowsNamed(d, nm) == {t \in d.tag : t.name = nm}

\* C12: when a scope that saved the same note with the same tag names twice
\* has ended, storage holds exactly one Tag row for each of the names.
C12_SavedTwiceOneTagRow ==
    \A p \in Procs :
        (req[p].op = "save_twice" /\ pc[p] = "done") =>
            \A i \in DOMAIN req[p].tag_names :
                Cardinality(TagRowsNamed(db, req[p].tag_names[i])) = 1

\* C13: with the service calls executed one after another, no two Tag rows
\* have the same name, and associations to Tag rows of the same name point to
\* the same row.
C13_TagNamesUnique ==
    /\ \A t, u \in db.tag : t.name = u.name => t.id = u.id
    /\ \A a, b \in db.note_tag :
          TagNamesOf(db, {a.tag_id}) = TagNamesOf(db, {b.tag_id}) => a.tag_id = b.tag_id

\* request p has performed its save and has ended
Saved(p) ==
    /\ pc[p] = "done"
    /\ \E i \in DOMAIN hist[p] : hist[p][i].e = "save" /\ hist[p][i].r = "ok"

NamesOf(q) == {q.tag_names[i] : i \in DOMAIN q.tag_names}

\* C14: when two concurrent requests have both saved a note referencing the
\* same tag name and have ended, storage holds exactly one Tag row with that
\* name.
C14_OneTagRowAfterRace ==
    \A p, q \in Procs :
        (p # q /\ Saved(p) /\ Saved(q)) =>
            \A nm \in NamesOf(req[p]) \cap NamesOf(req[q]) :
                Cardinality(TagRowsNamed(db, nm)) = 1

\* the Tag rows request p created
CreatedTags(p) == {t \in db.tag : req[p].tid # 0 /\ t.id[1] = req[p].tid}

SaveCalls(p) == {i \in DOMAIN hist[p] : hist[p][i].e = "save"}

\* C15: when the Tag rows two requests created collide on a name, one of the
\* two has repeated its lookup-or-create step (once), and a request fails
\* with Conflict only after such a retry.
C15_CollisionRetriedOnce ==
    /\ \A p, q \in Procs :
          (p # q /\ \E t \in CreatedTags(p), u \in CreatedTags(q) : t.name = u.name)
              => (Cardinality(SaveCalls(p)) = 2 \/ Cardinality(SaveCalls(q)) = 2)
    /\ \A p \in Procs : result[p] = "Conflict" => Cardinality(SaveCalls(p)) = 2

\* names of the tags associated with the stored note id
StoredTagNames(d, id) ==
    TagNamesOf(d, {a.tag_id : a \in {b \in d.note_tag : b.note_id = id}})

\* request p committed a save of its note with a tag list
CommittedTags(p) ==
    /\ req[p].op \in {"create_note", "update_note"}
    /\ req[p].has_tags
    /\ pc[p] = "done" /\ result[p] = "ok"

\* C16: once a save with a tag list has committed, the names associated with
\* the stored note are exactly the names of the list - of the list of the
\* request itself or, when another request committed a list for the same
\* note, of one of the two.
C16_FullReplacement ==
    \A p \in Procs :
        (CommittedTags(p) /\ \E n \in db.note : n.id = req[p].id) =>
            \E q \in Procs :
                /\ CommittedTags(q) /\ req[q].id = req[p].id
                /\ StoredTagNames(db, req[p].id) = NamesOf(req[q])

\* request p commits in this step
Commits(p) == pc[p] = "exit" /\ pc'[p] = "done" /\ result'[p] = "ok"

\* the stored row of a committed create_note is the one the command described;
\* that of a committed update_note carries the supplied fields and updated_at
SavedRowStored(p) ==
    LET q == req[p]
    IN /\ q.op = "create_note" =>
            NoteRow(q.id, q.user_id, q.title, q.content, q.memo_date, q.now, q.now)
                \in db.note
       /\ q.op = "update_note" =>
            \E n \in db.note :
                /\ n.id = q.id /\ n.user_id = q.user_id /\ n.updated_at = q.now
                /\ q.title # None => n.title = q.title
                /\ q.content # None => n.content = q.content
                /\ q.memo_date # None => n.memo_date = q.memo_date

\* a step keeps id, user_id and created_at of every note row that stays, and
\* changes a row only as the commit of a save of that note (update_note, or
\* the repeated save), which leaves the fields not supplied as they were
NoteFrame ==
    \A n \in db.note : \A m \in db'.note :
        m.id = n.id =>
            /\ m.user_id = n.user_id /\ m.created_at = n.created_at
            /\ m # n =>
                 \E p \in Procs :
                    /\ Commits(p) /\ req[p].id = n.id
                    /\ req[p].op \in {"update_note", "save_twice"}
                    /\ req[p].title = None => m.title = n.title
                    /\ req[p].content = None => m.content = n.content
                    /\ req[p].memo_date = None => m.memo_date = n.memo_date

\* C17: at most one note row carries a given id; a committed create_note has
\* inserted its row and a committed update_note has changed the supplied
\* fields and updated_at of the stored row; and no step changes the id,
\* user_id or created_at of a stored note, or any field of it other than by
\* such an update.
C17_UpsertFrame ==
    /\ [](/\ \A n, m \in db.note : n.id = m.id => n = m
          /\ \A p \in Procs : (pc[p] = "done" /\ result[p] = "ok") => SavedRowStored(p))
    /\ [][NoteFrame]_vars

\* an update_note with a new title has committed at a later clock reading
\* than the note was created at
C17_Witness ==
    \E p \in Procs :
        /\ req[p].op = "update_note" /\ pc[p] = "done" /\ result[p] = "ok"
        /\ req[p].title = "t2" /\ req[p].content = None
        /\ \E n \in db.note :
              n.id = req[p].id /\ n.title = "t2" /\ n.content = "c1"
              /\ n.updated_at > n.created_at

\* delete returned True (the row was selected and marked deleted)
ReturnedTrue(p) == \E i \in DOMAIN hist[p] : hist[p][i].e = "delete"

\* what a finished get_note, create_note or delete_note leaves to be seen
RoundTrip(p) ==
    LET q == req[p]
        stored == {n \in db.note : n.id = q.id /\ n.user_id = q.user_id}
    IN /\ (q.op = "get_note" /\ result[p] = "ok") =>
            /\ stored # {}
            /\ \A f \in found[p] :
                  /\ f.row \in stored
                  /\ TagNamesOf(db, f.tags) = StoredTagNames(db, q.id)
       /\ (q.op = "get_note" /\ result[p] = "NotFound") => stored = {}
       /\ (q.op = "create_note" /\ result[p] = "ok") =>
            /\ \E n \in stored : n.title = q.title /\ n.content = q.content
            /\ StoredTagNames(db, q.id) = NamesOf(q)
       /\ q.op = "delete_note" =>
            /\ result[p] = "ok" <=> ReturnedTrue(p)
            /\ result[p] = "ok" =>
                  /\ \A n \in db.note : n.id # q.id
                  /\ \A a \in db.note_tag : a.note_id # q.id
            /\ result[p] \in {"ok", "NotFound"}

\* the steps of delete_note: delete returns True exactly when the row of the
\* owner is stored, and the scope exit removes that row and its association
\* rows and nothing else, or (nothing found) changes nothing
DeleteFrame ==
    \A p \in Procs :
        req[p].op = "delete_note" =>
            LET q == req[p]
                stored == {n \in db.note : n.id = q.id /\ n.user_id = q.user_id}
            IN /\ (pc[p] = "ndelete" /\ pc'[p] = "exit") =>
                    (hist'[p][Len(hist'[p])].e = "delete" <=> stored # {})
               /\ (pc[p] = "exit" /\ pc'[p] = "done") =>
                    IF ReturnedTrue(p)
                      THEN /\ db'.note = db.note \ stored
                           /\ db'.note_tag = {a \in db.note_tag : a.note_id # q.id}
                           /\ db'.tag = db.tag /\ db'.user = db.user
                      ELSE db' = db

Faults == {"StorageError", "Cancelled", "CommitError", "RollbackError",
           "CancelledInExit"}

NoFault(p) == \A i \in DOMAIN hist[p] : hist[p][i].r \notin Faults

RowsWithEmail(d, e) == {u \in d.user : u.email = e}

\* C19: create_user with the email of the stored user never succeeds and,
\* when storage works, ends with Conflict; storage keeps exactly one row with
\* that email - the stored one, with the name it had or one an update_user
\* gave it.
C19_DuplicateEmailConflict ==
    /\ \A p \in Procs :
          (req[p].op = "create_user" /\ req[p].email = InitUser.email) =>
              /\ result[p] # "ok"
              /\ (pc[p] = "done" /\ NoFault(p)) => result[p] = "Conflict"
    /\ \E u \in db.user :
          /\ RowsWithEmail(db, InitUser.email) = {u}
          /\ u.id = InitUser.id
          /\ \/ u.name = InitUser.name
             \/ \E q \in Procs : req[q].op = "update_user" /\ req[q].new_name = u.name

\* a create_user with the stored email has failed with Conflict, storage
\* working throughout
C19_Witness ==
    \E p \in Procs :
        /\ req[p].op = "create_user" /\ req[p].email = InitUser.email
        /\ pc[p] = "done" /\ result[p] = "Conflict" /\ NoFault(p)
        /\ RowsWithEmail(db, InitUser.email) = {InitUser}

\* C20: of two concurrent create_user calls with one email at most one row is
\* committed, and the call that loses at the unique constraint ends with
\* Conflict: IntegrityError never reaches the caller.
C20_LoserGetsConflict ==
    /\ \A e \in Emails : Cardinality(RowsWithEmail(db, e)) <= 1
    /\ \A p \in Procs :
          req[p].op = "create_user" =>
              /\ result[p] # "IntegrityError"
              /\ (\E i \in DOMAIN hist[p] :
                     hist[p][i].e = "commit" /\ hist[p][i].r = "IntegrityError")
                   => (pc[p] = "done" => result[p] = "Conflict")

\* the committed update_user of request p: its scope exit commits and the
\* method returns the updated user
UserUpdateCommits(p) ==
    /\ req[p].op = "update_user"
    /\ pc[p] = "exit" /\ pc'[p] = "done"
    /\ result'[p] = "ok"

\* the stored row the committed update of p was applied to
TargetOf(p) == {u \in db.user : u.id \in {f.id : f \in found[p]}}

\* the fields of a user row that update_user(q) was not asked to change
NotSupplied(q) ==
    {"id", "email", "created_at"}
        \cup (IF q.new_name = None THEN {"name"} ELSE {})
        \cup (IF q.new_password = None THEN {"password"} ELSE {})
        \cup (IF q.new_memo = None THEN {"memo"} ELSE {})
        \cup (IF q.new_role = None THEN {"role"} ELSE {})

UserFrame ==
    \A p \in Procs :
        UserUpdateCommits(p) =>
            /\ TargetOf(p) # {}
            /\ \A u \in db.user :
                  \E v \in db'.user :
                     /\ v.id = u.id
                     /\ u \notin TargetOf(p) => v = u
                     /\ u \in TargetOf(p) =>
                           /\ \A f \in NotSupplied(req[p]) : v[f] = u[f]
                           /\ v.updated_at >= req[p].now
                           /\ u.updated_at <= req[p].now => v.updated_at = req[p].now
            /\ Cardinality(db'.user) = Cardinality(db.user)

TagCount(d, id) == Cardinality({a \in d.note_tag : a.note_id = id})

\* C22: every persisted note has a title of 1..64 characters, non-empty
\* content, a memo_date of exactly 8 characters and at most
\* MAX_TAGS_PER_NOTE tags.
C22_PersistedNotesValid ==
    \A n \in db.note :
        /\ Chars(n.title) >= 1 /\ Chars(n.title) <= 64
        /\ Chars(n.content) >= 1
        /\ Chars(n.memo_date) = 8
        /\ TagCount(db, n.id) <= 10

\* the calls C23 is about: more tag names than the maximum, or update_note
\* with an empty title, empty content or a memo_date not of 8 characters
Malformed(q) ==
    \/ q.op \in {"create_note", "update_note"} /\ q.has_tags /\ Len(q.tag_names) > 10
    \/ /\ q.op = "update_note"
       /\ \/ q.title = "" \/ q.content = ""
          \/ (q.memo_date # None /\ Chars(q.memo_date) # 8)

\* C23: a malformed create_note or update_note (of a note that exists) fails
\* with the Validation error kind.
C23_MalformedIsValidation ==
    \A p \in Procs :
        (pc[p] = "done" /\ Malformed(req[p]) /\ result[p] # "NotFound")
            => ErrorKind(result[p]) = "VALIDATION_ERROR"

\* the scope exit of update_note of request p commits and the method returns
UpdateNoteCommits(p) ==
    /\ req[p].op = "update_note"
    /\ pc[p] = "exit" /\ pc'[p] = "done"
    /\ result'[p] = "ok"

\* C24: each committed update_note leaves the stored updated_at of its note
\* strictly greater than the value stored before it - equal only when the
\* clock reading of the update is that very value - and never smaller than
\* created_at.
UpdatedAtAdvances ==
    \A p \in Procs :
        UpdateNoteCommits(p) =>
            \A n \in db.note : \A m \in db'.note :
                (n.id = req[p].id /\ m.id = n.id) =>
                    /\ \/ m.updated_at > n.updated_at
                       \/ (m.updated_at = n.updated_at /\ req[p].now = n.updated_at)
                    /\ m.updated_at >= m.created_at

C24_UpdatedAtAdvances == [][UpdatedAtAdvances]_vars

\* a note with this id is stored for this owner
ExistsFor(d, id, user_id) == \E n \in d.note : n.id = id /\ n.user_id = user_id

\* C25: get_note, update_note and delete_note for an id that is not stored
\* for the given owner (absent, or owned by another user) raise NotFound and
\* leave every stored note, tag and association as it was.
NotFoundFrame ==
    \A p \in Procs :
        (/\ req[p].op \in {"get_note", "update_note", "delete_note"}
         /\ pc[p] = "exit" /\ pc'[p] = "done"
         /\ ~ExistsFor(db, req[p].id, req[p].user_id))
            => result'[p] = "NotFound" /\ db' = db

C25_NotFoundLeavesStore == [][NotFoundFrame]_vars

\* delete_note has ended with NotFound for a note that is stored with its
\* tags for another owner
C25_Witness ==
    \E p \in Procs :
        /\ pc[p] = "done" /\ result[p] = "NotFound"
        /\ req[p].op = "delete_note"
        /\ \E n \in db.note : n.id = req[p].id /\ n.user_id # req[p].user_id
        /\ \E a \in db.note_tag : a.note_id = req[p].id

\* ============================================================ token claims
\* request p presents its token
Presents(p) == pc[p] = "holding" /\ pc'[p] = "done"

SignatureValid(t) == t.sig = "valid"

\* the expiry claim (whole seconds) lies after the time now (half seconds)
ExpiryInFuture(t, now) == 2 * t.exp > now

LacksClaims(t) == t.sub \in {None, ""} \/ t.role \in {None, ""}

\* C26: verification returns claims only for a token whose signature is
\* valid and whose expiry lies in the future; it raises Unauthorized when the
\* signature is invalid or the expiry has passed - always for a token
\* issued with a ttl of -1 second - and Forbidden when the token decodes but
\* lacks a subject or a role.
TokenVerification ==
    \A p \in Procs :
        Presents(p) =>
            LET t == req[p].token
                live == SignatureValid(t) /\ ExpiryInFuture(t, clock)
            IN /\ result'[p] = "ok" => live /\ ~LacksClaims(t)
               /\ ~live => result'[p] = "Unauthorized"
               /\ req[p].ttl = [given |-> TRUE, d |-> -2] => result'[p] = "Unauthorized"
               /\ (live /\ LacksClaims(t)) => result'[p] = "Forbidden"

C26_TokenVerification == [][TokenVerification]_vars

\* an untouched token issued with a ttl of -1 second was refused at the time
\* of issue, a token without subject was refused as Forbidden, and a token
\* was accepted
C26_Witness ==
    \E p, q \in Procs :
        /\ pc[p] = "done" /\ pc[q] = "done"
        /\ req[p].ttl = [given |-> TRUE, d |-> -2]
        /\ req[p].token.sig = "valid" /\ req[p].now = clock
        /\ result[p] = "Unauthorized"
        /\ result[q] = "Forbidden" /\ req[q].token.sub = None

\* C27: for every supplied ttl (positive, negative, zero) the expiry claim of
\* an issued token is the issue time plus that ttl (in whole seconds), its
\* subject and role are the supplied ones, and the default lifetime is used
\* only when no ttl is supplied.
C27_ExpiryIsIssuePlusTtl ==
    \A p \in Procs :
        (req[p].op = "token" /\ req[p].token.sig = "valid") =>
            /\ req[p].token.sub = req[p].user_id
            /\ req[p].token.role = req[p].role
            /\ req[p].ttl.given =>
                  req[p].token.exp = (req[p].now + req[p].ttl.d) \div 2
            /\ ~req[p].ttl.given =>
                  req[p].token.exp = (req[p].now + Minutes(ACCESS_TOKEN_EXPIRE_MINUTES)) \div 2

\* =========================================================== cursor claims
\* the first request of the chain has been answered
Answered == pager.state \in {"next", "finished", "failed"}

\* C28: decode(encode(created_at, id)) = (created_at, id) for every timestamp
\* and every non-empty id, an id that itself contains "_" included.
C28_CursorRoundTrip ==
    \A t \in Times, i \in IdStrings :
        (Answered /\ pager.given = encode(t, i)) =>
            /\ pager.error = NoExc
            /\ pager.parsed[1] = t
            /\ <<pager.parsed[2]>> = i

\* a non-empty cursor string whose timestamp segment does not parse, that
\* has no "_", or that has nothing after it
MalformedCursor(c) ==
    /\ c # <<>>
    /\ \/ c[1] = NotIso
       \/ Len(c) = 1
       \/ (Len(c) = 2 /\ c[2] = 0)

\* C29: a request with a malformed cursor fails with a Validation error; it
\* is never answered with a page, nor with an error of another kind.
C29_MalformedCursorRejected ==
    (Answered /\ MalformedCursor(pager.given)) =>
        /\ pager.state = "failed"
        /\ ErrorKind(pager.error) = "VALIDATION_ERROR"

\* ======================================================= list by tag claims
\* note id is associated with a tag named nm
HasTagNamed(d, id, nm) ==
    \E t \in d.tag : t.name = nm /\ NoteTagRow(id, t.id) \in d.note_tag

\* the store reduced to the notes associated with a tag named nm
TaggedOnly(d, nm) == [d EXCEPT !.note = {n \in @ : HasTagNamed(d, n.id, nm)}]

\* C30: for the owner, tag name, limit and cursor of every request,
\* get_notes_by_tag_name returns exactly the page get_notes returns over the
\* owner's notes associated with a tag of that name - same order, same
\* exclusive cursor, same limit - and no note lacking the tag.
ListByTagIsListByOwner ==
    LET c == parse_cursor(pager.cursor)
        page == get_notes(TaggedOnly(db, pager.tag), PageOwner, pager.limit, c[1], c[2])
    IN /\ pager'.seen = pager.seen \o [i \in DOMAIN page |-> page[i].id]
       /\ \A i \in DOMAIN pager'.seen : HasTagNamed(db, pager'.seen[i], pager.tag)

C30_ListByTagIsListByOwner == [][ListByTagIsListByOwner]_vars

\* a chain by tag "a" has ended after more than one page, it returned a note
\* carrying the second Tag row named "a", and the store holds a note of the
\* owner tagged "b" only, which it left out
C30_Witness ==
    /\ pager.state = "finished" /\ pager.tag = "a"
    /\ Len(pager.seen) > pager.limit
    /\ \E i \in DOMAIN pager.seen : NoteTagRow(pager.seen[i], <<0, 2>>) \in db.note_tag
    /\ \E n \in db.note :
          /\ n.id \notin Range(pager.seen) /\ n.user_id = PageOwner
          /\ NoteTagRow(n.id, <<0, 3>>) \in db.note_tag

\* ============================================================ password claims
\* the user row request p looked up
LookedUp(p) == CHOOSE u \in found[p] : TRUE

\* request p is a login or update_user that found its user
AgainstStored(p) ==
    /\ pc[p] = "done" /\ req[p].op \in {"login", "update_user"}
    /\ found[p] # {}

\* the stored value is not the hasher's output for any password and salt
NotAHash(w) == \A raw \in Plaintexts, salt \in Salts : w # Argon2(raw, salt)

\* C31: a login or update_user whose user row holds a password value that is
\* not a well-formed hash never succeeds: it ends with Unauthorized or with
\* a Validation error, issues no token and leaves the row as it was.
C31_VerifyFailsClosed ==
    \A p \in Procs :
        AgainstStored(p) /\ NotAHash(LookedUp(p).password)
          => /\ result[p] \in {"Unauthorized", "ValidationException"}
             /\ ErrorKind(result[p]) \in {"UNAUTHORIZED", "VALIDATION_ERROR"}
             /\ req[p].token.sig = "none"
             /\ LookedUp(p) \in db.user

\* a login and an update_user have both ended against a row that stores the
\* very plaintext they supplied
C31_Witness ==
    \E p, o \in Procs :
        /\ AgainstStored(p) /\ req[p].op = "login"
        /\ AgainstStored(o) /\ req[o].op = "update_user" /\ req[o].new_password # None
        /\ LookedUp(p).password = req[p].password
        /\ LookedUp(o).password = req[o].password

\* the passwords the requests have supplied so far
Supplied == UNION {{req[p].password, req[p].new_password} : p \in Procs} \ {None}

\* C33: the stored password of every user is a hash the hasher produced
\* (for some password and salt) and never a plaintext that was supplied to
\* create_user or update_user.
C33_StoredPasswordIsHash ==
    \A u \in db.user :
        /\ \E raw \in Plaintexts, salt \in Salts : u.password = Argon2(raw, salt)
        /\ u.password \notin Supplied

\* a user made by create_user is stored, and update_user has replaced the
\* password of the user that was there before
C33_Witness ==
    /\ \E p \in Procs : req[p].op = "create_user" /\ result[p] = "ok"
                          /\ \E u \in db.user : u.id = req[p].id
    /\ \E p \in Procs : req[p].op = "update_user" /\ result[p] = "ok"
                          /\ \E u \in db.user :
                                u.id = 0 /\ u.password = Argon2(req[p].new_password, req[p].salt)
                                         /\ u.password # Argon2("pw1", "s1")

\* ================================================================ login claim
\* a step of the login request of p
LoginStep(p) == req'[p].op = "login" /\ pc'[p] # pc[p]

\* the user login p looked up exists and the password given is the one its
\* stored hash was made from
Matches(p) ==
    /\ found[p] # {}
    /\ \E salt \in Salts : LookedUp(p).password = Argon2(req[p].password, salt)

\* what login p returned: a token for the user it looked up exactly when the
\* password matches, NotFound for an unknown email
TokenIffMatches(p) ==
    /\ result[p] = "ok" <=> Matches(p)
    /\ result[p] = "ok" <=> req[p].token.sig = "valid"
    /\ Matches(p) => /\ req[p].token.sub = LookedUp(p).id
                      /\ req[p].token.role = LookedUp(p).role
    /\ found[p] = {} => result[p] = "NotFound"

\* the claim as stated: a returned token iff the user exists and the password
\* verifies, with the user's id and role; every wrong password fails with
\* Unauthorized, an unknown email with NotFound; no stored row is modified
C38_LoginAsStated ==
    [][\A p \in Procs :
          LoginStep(p) =>
            /\ db' = db
            /\ pc'[p] = "done" =>
                  /\ TokenIffMatches(p)'
                  /\ (found[p] # {} /\ ~Matches(p) => result[p] = "Unauthorized")']_vars

\* C38 (amended): login returns a token iff a user with the email exists and
\* the password verifies against the stored hash; the token's subject is the
\* user's id and its role the stored role; an unknown email fails with
\* NotFound, a wrong password with Unauthorized, except that a password the
\* hasher refuses (longer than it accepts) fails with a Validation error;
\* login modifies no stored row.
C38_Login ==
    [][\A p \in Procs :
          LoginStep(p) =>
            /\ db' = db
            /\ pc'[p] = "done" =>
                  /\ TokenIffMatches(p)'
                  /\ (found[p] # {} /\ ~Matches(p) =>
                        result[p] = IF req[p].password = Oversize
                                      THEN "ValidationException"
                                      ELSE "Unauthorized")']_vars

\* one login has returned a token with the stored role of its user, and
\* another login of an existing user with an oversize password has ended
C38_Witness ==
    \E p, o \in Procs :
        /\ req[p].op = "login" /\ result[p] = "ok"
        /\ req[p].token.role = "r0"
        /\ req[o].op = "login" /\ pc[o] = "done" /\ req[o].password = Oversize
        /\ found[o] # {}

\* ================================================================= tag claims
\* C32: no step removes a committed Tag row: every Tag row stored before a
\* step of create_note, update_note or delete_note is stored after it,
\* unchanged, also when the step removes the last association to it.
C32_TagRowsOnlyGrow == [][db.tag \subseteq db'.tag]_vars

\* no association row refers to the Tag row
Orphan(d, t) == ~\E a \in d.note_tag : a.tag_id = t.id

\* an update_note that replaced the tags of a note and a delete_note have
\* both committed, and Tag rows that no note refers to are still stored
C32_Witness ==
    /\ \E p \in Procs : req[p].op = "update_note" /\ req[p].has_tags
                          /\ result[p] = "ok"
    /\ \E p \in Procs : req[p].op = "delete_note" /\ result[p] = "ok"
    /\ db.note = {}
    /\ \E t, u \in db.tag : t.name # u.name /\ Orphan(db, t) /\ Orphan(db, u)

\* the tag list of request p names some tag more than once
RepeatsAName(q) ==
    q.has_tags /\ \E i, j \in DOMAIN q.tag_names : i # j /\ q.tag_names[i] = q.tag_names[j]

\* C34: when a create_note or update_note whose tag list repeats a name has
\* saved and ended, it has created at most one Tag row for each name of the
\* list and the note is associated with exactly one Tag row of that name.
C34_RepeatedNameOneRow ==
    \A p \in Procs :
        (Saved(p) /\ result[p] = "ok" /\ req[p].op \in {"create_note", "update_note"}
           /\ RepeatsAName(req[p]))
          => \A nm \in NamesOf(req[p]) :
                /\ Cardinality({t \in CreatedTags(p) : t.name = nm}) <= 1
                /\ Cardinality({a \in db.note_tag :
                                   /\ a.note_id = req[p].id
                                   /\ nm \in TagNamesOf(db, {a.tag_id})}) = 1

\* ======================================================= owner isolation claim
\* the association rows of note id
AssociationsOf(d, id) == {a \in d.note_tag : a.note_id = id}

\* a step of a request issued with user_id = owner leaves the notes of every
\* other owner stored as they were, with their associations
OthersUntouched(owner) ==
    \A n \in db.note :
        n.user_id # owner
          => n \in db'.note /\ AssociationsOf(db', n.id) = AssociationsOf(db, n.id)

\* C35: a request issued with user_id = A is never handed a note of another
\* owner by its lookup, a listing for A holds notes of A only, and no step
\* of the request changes or deletes a note row of another owner or the
\* associations of such a note.
OwnerIsolation ==
    /\ \A p \in Procs :
          /\ req[p].op \in {"get_note", "update_note", "delete_note"}
                => \A f \in found[p] : f.row.user_id = req[p].user_id
          /\ (pc'[p] # pc[p] /\ req[p].op # "none") => OthersUntouched(req[p].user_id)
    /\ \A u \in Users :
          LET page == get_notes(db, u, MaxLimit, 0, 0)
          IN \A i \in DOMAIN page : page[i].user_id = u

C35_OwnerIsolation == [][OwnerIsolation]_vars

\* another user has created a note of its own and then ended an update_note,
\* with a new title and a tag list, for the id of a stored tagged note of
\* the first owner; that note and its associations are stored as they were
C35_Witness ==
    /\ \E n \in db.note : n.id = 1 /\ n.user_id = PageOwner /\ n.title = "t1"
    /\ AssociationsOf(db, 1) # {}
    /\ pc["p1"] = "returned"
    /\ req["p2"].op = "update_note" /\ req["p2"].id = 1 /\ req["p2"].has_tags
    /\ req["p2"].title # None
    /\ req["p2"].user_id # PageOwner /\ pc["p2"] = "done"
    /\ \E n \in db.note : n.user_id # PageOwner

\* ==================================================== update_note tags claim
\* the names of the tags note id is associated with
AssociatedNames(d, id) ==
    {t.name : t \in {u \in d.tag : NoteTagRow(id, u.id) \in d.note_tag}}

\* the step in which update_note p commits and returns
UpdateReturns(p) ==
    /\ req[p].op = "update_note"
    /\ pc[p] = "exit" /\ pc'[p] = "done" /\ result'[p] = "ok"

\* C37: an update_note without tag_names leaves the set of tag names its
\* note is associated with and the set of Tag rows as they were; an
\* update_note with an empty tag_names list leaves the note without any
\* association (and the Tag rows as they were).
UpdateNoteTags ==
    \A p \in Procs :
        UpdateReturns(p) =>
            /\ ~req[p].has_tags =>
                  /\ AssociatedNames(db', req[p].id) = AssociatedNames(db, req[p].id)
                  /\ db'.tag = db.tag
            /\ (req[p].has_tags /\ req[p].tag_names = <<>>) =>
                  /\ ~\E a \in db'.note_tag : a.note_id = req[p].id
                  /\ db'.tag = db.tag

C37_UpdateNoteTags == [][UpdateNoteTags]_vars

\* the first request, an update_note without tag_names that changed the
\* title, has returned, and its note still carries its tag
C37_Witness ==
    /\ pc["p1"] = "done" /\ pc["p2"] = "idle"
    /\ req["p1"].op = "update_note" /\ ~req["p1"].has_tags /\ result["p1"] = "ok"
    /\ \E n \in db.note : n.id = req["p1"].id /\ n.title = "t2"
    /\ \E a \in db.note_tag : a.note_id = req["p1"].id

\* ============================================================== chain claim
CeilDiv(n, l) == (n + l - 1) \div l

\* the rows the chain lists: the owner's notes, or all users
Listed == IF pager.state \in {"first", "next", "finished"}
            THEN {n \in db.note : n.user_id = PageOwner}
            ELSE db.user

Running == pager.state \in {"first", "next", "first_users", "next_users"}

\* C36: while nothing is written, every fetch of a chain returns next_cursor
\* = null exactly when its page is empty; a non-null next_cursor decodes to
\* the (created_at, id) of the last item of the page; and the chain over n
\* rows is over after at most ceil(n / limit) + 1 fetches.
ChainStep ==
    LET got == Len(pager'.seen) - Len(pager.seen)
        bound == CeilDiv(Cardinality(Listed), pager.limit) + 1
    IN /\ pager'.cursor = <<>> <=> got = 0
       /\ pager'.cursor # <<>> =>
             \E r \in Listed :
                /\ r.id = pager'.seen[Len(pager'.seen)]
                /\ parse_cursor(pager'.cursor) = <<r.created_at, r.id>>
       /\ Running' <=> pager'.cursor # <<>>
       /\ pager'.fetches <= bound
       /\ Running' => pager'.fetches < bound

C36_ChainTerminates == [][ChainStep]_vars

\* a chain of user pages over three users with limit 2 is over after its
\* third fetch, which returned nothing
C36_Witness ==
    /\ pager.state = "finished_users" /\ pager.limit = 2
    /\ Cardinality(db.user) = 3 /\ Len(pager.seen) = 3
    /\ pager.fetches = 3

====
